---- MODULE Spec2Model ----
(***************************************************************************)
(* blooop: the attention-detection watcher (src/watcher.js, carried in     *)
(* src/blooop_spec.md from line 96 on) together with the input classifier  *)
(* it depends on.  Text is modelled as sequences of UTF-16 code units.     *)
(***************************************************************************)
EXTENDS Integers, Sequences, FiniteSets, TLC

\* ------------------------------------------------------------------------
\* Bounds of the model (not program constants)
\* ------------------------------------------------------------------------
\* one Tick of the model clock advances time by this many milliseconds
TickMs == 2000
\* the elapsed-time history counter saturates here (>= every idleMs used)
MaxElapsedMs == 4000
\* the per-cycle trigger counter saturates here
MaxTriggerCount == 2
\* the classifier is applied to every chunk of at most this many code units
MaxClassifyLen == 3
\* playSound() is called at most this many times
MaxChains == 1
\* a response body arrives in at most this many chunks
MaxChunks == 1
\* notify() is called at most this many times
MaxNotifyCalls == 2
\* the picker offers this many sounds, "default" included
OptionCount == 2
\* the picker's clock advances in steps of this many ms
PickerTickMs == 600

\* ------------------------------------------------------------------------
\* Code units
\* ------------------------------------------------------------------------
ESC == 27
CR == 13
LF == 10

Max(a, b) == IF a >= b THEN a ELSE b
Min(a, b) == IF a <= b THEN a ELSE b

\* ------------------------------------------------------------------------
\* Regular expressions of watcher.js, each computed as the regex engine does
\* ------------------------------------------------------------------------
RECURSIVE SkipClass(_, _, _, _)
\* greedy  [lo-hi]*  starting at index j: the first index not in the class
SkipClass(s, j, lo, hi) ==
  IF j <= Len(s) /\ s[j] >= lo /\ s[j] <= hi
    THEN SkipClass(s, j + 1, lo, hi)
    ELSE j

\* ANSI_ESCAPE_RE = /\x1B(?:[@-Z\\-_]|\[[0-?]*[ -/]*[@-~])/g
\* length of the match that starts at index i, 0 when there is none
AnsiMatchLen(s, i) ==
  IF i + 1 > Len(s) \/ s[i] # ESC THEN 0
  ELSE IF (s[i + 1] >= 64 /\ s[i + 1] <= 90) \/ (s[i + 1] >= 92 /\ s[i + 1] <= 95) THEN 2
  ELSE IF s[i + 1] # 91 THEN 0
  ELSE LET j == SkipClass(s, i + 2, 48, 63)
           k == SkipClass(s, j, 32, 47)
       IN IF k <= Len(s) /\ s[k] >= 64 /\ s[k] <= 126 THEN k - i + 1 ELSE 0

RECURSIVE StripAnsiFrom(_, _)
StripAnsiFrom(s, i) ==
  IF i > Len(s) THEN <<>>
  ELSE LET n == AnsiMatchLen(s, i)
       IN IF n > 0 THEN StripAnsiFrom(s, i + n)
          ELSE <<s[i]>> \o StripAnsiFrom(s, i + 1)

\* function stripAnsi(input)
stripAnsi(input) == StripAnsiFrom(input, 1)

\* FOCUS_EVENT_RE = /\x1b\[(?:I|O)/g
FocusMatchLen(s, i) ==
  IF i + 2 <= Len(s) /\ s[i] = ESC /\ s[i + 1] = 91 /\ (s[i + 2] = 73 \/ s[i + 2] = 79)
    THEN 3 ELSE 0

RECURSIVE StripFocusFrom(_, _)
StripFocusFrom(s, i) ==
  IF i > Len(s) THEN <<>>
  ELSE IF FocusMatchLen(s, i) > 0 THEN StripFocusFrom(s, i + 3)
  ELSE <<s[i]>> \o StripFocusFrom(s, i + 1)

\* text.replace(FOCUS_EVENT_RE, '')
stripFocus(text) == StripFocusFrom(text, 1)

\* the class [\x00-\x09\x0b\x0c\x0e-\x1f\x7f]
IsStrippedControl(c) ==
  (c >= 0 /\ c <= 9) \/ c = 11 \/ c = 12 \/ (c >= 14 /\ c <= 31) \/ c = 127

\* stripped.replace(/[\x00-\x09\x0b\x0c\x0e-\x1f\x7f]/g, '')
stripControl(s) == SelectSeq(s, LAMBDA c : ~IsStrippedControl(c))

\* String(undefined)
UndefinedText == <<117, 110, 100, 101, 102, 105, 110, 101, 100>>

\* a value handed to onUserInput: undefined, or a string / Buffer of text
Undefined == [kind |-> "undefined", text |-> <<>>]
Str(t) == [kind |-> "string", text |-> t]

\* Buffer.isBuffer(data) ? data.toString('utf8') : String(data)
ToText(data) == IF data.kind = "undefined" THEN UndefinedText ELSE data.text

\* function isMeaningfulUserInput(data)
isMeaningfulUserInput(data) ==
  IF data.kind = "undefined" THEN TRUE
  ELSE LET text == ToText(data)
       IN IF Len(text) = 0 THEN FALSE
          ELSE LET stripped == stripAnsi(stripFocus(text))
                   printable == stripControl(stripped)
               IN Len(printable) > 0

\* isSubmission looking for CR only
isSubmission_OnlyCR(data) ==
  LET text == ToText(data)
  IN \E i \in 1..Len(text) : text[i] = CR

\* function isSubmission(data)
isSubmission(data) ==
  LET text == ToText(data)
  IN (\E i \in 1..Len(text) : text[i] = CR) \/ (\E i \in 1..Len(text) : text[i] = LF)

\* ------------------------------------------------------------------------
\* Output patterns
\* ------------------------------------------------------------------------
\* Canonicalize of a case-insensitive (/i) regex: compare upper-cased units
Canonicalize(c) == IF c >= 97 /\ c <= 122 THEN c - 32 ELSE c

\* /literal/i .test(text): the literal occurs somewhere, ignoring case
TestLiteralI(lit, text) ==
  \E i \in 1..(Len(text) - Len(lit) + 1) :
    \A k \in 1..Len(lit) : Canonicalize(text[i + k - 1]) = Canonicalize(lit[k])

\* /literal/ .test(text): the literal occurs somewhere
TestLiteral(lit, text) ==
  \E i \in 1..(Len(text) - Len(lit) + 1) :
    \A k \in 1..Len(lit) : text[i + k - 1] = lit[k]

\* \s of a JavaScript regex
IsWhiteSpace(c) ==
  c \in {9, 10, 11, 12, 13, 32, 160, 5760, 8232, 8233, 8239, 8287, 12288, 65279}
    \/ (c >= 8192 /\ c <= 8202)

\* the line terminators that ^ and $ recognise under the /m flag
IsLineTerminator(c) == c \in {10, 13, 8232, 8233}

\* /^\s*[>›]\s+$/m .test(text)
TestPromptGlyphLine(text) ==
  \E i \in 1..Len(text) : \E g \in i..Len(text) : \E e \in (g + 1)..Len(text) :
    /\ (i = 1 \/ IsLineTerminator(text[i - 1]))
    /\ \A k \in i..(g - 1) : IsWhiteSpace(text[k])
    /\ (text[g] = 62 \/ text[g] = 8250)
    /\ \A k \in (g + 1)..e : IsWhiteSpace(text[k])
    /\ (e = Len(text) \/ IsLineTerminator(text[e + 1]))

\* a pattern is a record; Test is pattern.test(text)
LitI(lit) == [kind |-> "literal_i", lit |-> lit]
Lit(lit) == [kind |-> "literal", lit |-> lit]
GlyphLine == [kind |-> "glyph_line", lit |-> <<>>]

Test(pattern, text) ==
  CASE pattern.kind = "literal_i" -> TestLiteralI(pattern.lit, text)
    [] pattern.kind = "literal" -> TestLiteral(pattern.lit, text)
    [] pattern.kind = "glyph_line" -> TestPromptGlyphLine(text)

\* const PROMPT_PATTERNS
PROMPT_PATTERNS == <<
  LitI(<<40, 121, 47, 110, 41>>),
  LitI(<<121, 101, 115, 47, 110, 111>>),
  LitI(<<112, 114, 101, 115, 115, 32, 101, 110, 116, 101, 114>>),
  LitI(<<100, 111, 32, 121, 111, 117, 32, 119, 97, 110, 116>>),
  LitI(<<112, 114, 111, 99, 101, 101, 100, 63>>),
  LitI(<<99, 111, 110, 102, 105, 114, 109>>) >>

\* const CLAUDE_IDLE_PATTERNS
CLAUDE_IDLE_PATTERNS == <<
  GlyphLine,
  Lit(<<63, 32, 102, 111, 114, 32, 115, 104, 111, 114, 116, 99, 117, 116, 115>>) >>

DEFAULT_IDLE_MS == 4000

\* for (const pattern of patterns) if (pattern.test(text)) ...: some pattern
\* of the list matches (the loop acts on the first one that does)
AnyMatch(patterns, text) == \E i \in 1..Len(patterns) : Test(patterns[i], text)

\* ------------------------------------------------------------------------
\* Inputs of the model
\* ------------------------------------------------------------------------
\* an absent option, a NaN, or a number
NoOption == [kind |-> "undefined", value |-> 0]
NaNOption == [kind |-> "NaN", value |-> 0]
Num(n) == [kind |-> "number", value |-> n]

\* a custom prompt pattern a caller may pass: /ok\?/
CustomPatterns == << Lit(<<111, 107, 63>>) >>

\* options.idleMs, options.enableIdle, options.promptPatterns as passed to watch()
OptionsIdleMs == {NoOption, NaNOption, Num(0), Num(0 - 1000), Num(1000)}
OptionsEnableIdle == {"undefined", "false"}
OptionsPromptPatterns == {<<>>, CustomPatterns}
OptionsSet ==
  {o \in [idleMs : OptionsIdleMs, enableIdle : OptionsEnableIdle,
          hasPromptPatterns : BOOLEAN, promptPatterns : OptionsPromptPatterns] :
     ~o.hasPromptPatterns => o.promptPatterns = <<>>}

\* chunks the user side may send to onUserInput
UserInputs == {
  Undefined,
  Str(<<>>),
  Str(<<CR>>),
  Str(<<LF>>),
  Str(<<104>>),
  Str(<<104, CR>>),
  Str(<<127>>),
  Str(<<8>>),
  Str(<<ESC>>),
  Str(<<ESC, ESC>>),
  Str(<<ESC, 91, 65>>),
  Str(<<ESC, 91, 73>>),
  Str(<<ESC, 91, 79>>),
  Str(<<ESC, 91, 73, CR>>) }

\* chunks the wrapped process may write
OutputChunks == {
  <<>>,
  <<119, 111, 114, 107, 105, 110, 103>>,
  <<40, 121, 47, 110, 41>>,
  <<67, 111, 110, 102, 105, 114, 109>>,
  <<ESC, 91, 51, 51, 109, 40, 121, 47, 110, 41, ESC, 91, 48, 109>>,
  <<40, 121, ESC, 91, 48, 109, 47, 110, 41>>,
  <<111, 107, 63>>,
  <<62, 32>>,
  <<8250, 32>>,
  <<62>>,
  <<120, 62, 32>>,
  <<ESC, 91, 50, 75, 62, 32>>,
  <<97, 10, 62, 32, 10, 98>>,
  <<63, 32, 102, 111, 114, 32, 115, 104, 111, 114, 116, 99, 117, 116, 115>>,
  <<80, 114, 111, 99, 101, 101, 100, 63, 32, 10, 62, 32>> }

\* ------------------------------------------------------------------------
\* State
\* ------------------------------------------------------------------------
VARIABLES
  options,            \* the options object watch() was called with
  idleMs,             \* const idleMs
  enableIdle,         \* const enableIdle
  promptPatterns,     \* const promptPatterns
  state,              \* let state: "idle", "prompt" or "notified"
  idleTimer,          \* let idleTimer: 0 for null, else the Timeout handle
  hadOutput,          \* let hadOutput
  userHasInteracted,  \* let userHasInteracted
  awaitingResponse,   \* let awaitingResponse
  stopped,            \* let stopped
  timers,             \* the event loop's scheduled timeouts: [id, remaining]
  lastEvent,          \* history: the handler that ran last, its argument and result
  fired,              \* history: onTrigger invocations made by that handler
  triggersSinceRearm, \* history: onTrigger invocations since onUserInput last returned true
  everRearmed,        \* history: some onUserInput call has returned true
  submitPending,      \* history: last re-arming input was a submission, no trigger since
  outputSinceRearm,   \* history: a chunk arrived since onUserInput last returned true
  stopCalled,         \* history: stop() has been called and has returned
  msSinceOutput,      \* history: ms elapsed since the last output chunk (saturating)
  superseded,         \* history: that handler cancelled a live timer and scheduled another
  onTrigger,          \* what the callback handed to watch() does when it is invoked
  reentered,          \* history: that handler's callback called onUserInput, which returned true
  cls,                \* the input classifier applied to one chunk, and what it returned
  platform,           \* notify.js: process.platform
  soundProc,          \* notify.js: let soundProc: 0 for null, else the index of a process
  procs,              \* notify.js: the player processes spawned so far, in spawn order
  now,                \* notify.js: what Date.now() returned last
  lastNotifyAt,       \* notify.js: let lastNotifyAt
  notifications,      \* notify.js: the Date.now() of each notifier.notify() call made
  lastCall,           \* history: the last notify() call: its time, config.muted, and its number
  files,              \* updater.js: the home directory: file name -> inode (0: absent)
  inodes,             \* updater.js: the contents of the inodes created so far
  upd,                \* updater.js: each blooop process's place in checkForUpdate
  pickerActive,       \* bin/blooop.js: let pickerActive
  ptyOutputBuffered,  \* bin/blooop.js: let ptyOutputBuffered
  keyListeners,       \* soundpicker.js: the onKey closures registered on stdin
  confirmTimers,      \* soundpicker.js: ms left of each pending confirmation timeout
  blooopJson,         \* ~/.blooop.json as loadConfig() reads it
  crashed,            \* an exception left a handler uncaught: the process is gone
  invocation,         \* history: what the last showSoundPicker() call has done so far
  pkEvent             \* history: the last event of bin/blooop.js and what its handlers did

watcherVars ==
  <<state, idleTimer, hadOutput, userHasInteracted, awaitingResponse, stopped, timers>>
configVars == <<options, idleMs, enableIdle, promptPatterns, onTrigger>>
historyVars ==
  <<lastEvent, fired, triggersSinceRearm, everRearmed, submitPending,
    outputSinceRearm, stopCalled, msSinceOutput, superseded, reentered>>
classifierVars == <<cls>>
clockVars == <<now, lastCall>>
soundVars == <<platform, soundProc, procs, lastNotifyAt, notifications, clockVars>>
updaterVars == <<files, inodes, upd>>
pickerVars ==
  <<pickerActive, ptyOutputBuffered, keyListeners, confirmTimers, blooopJson,
    crashed, invocation, pkEvent>>
vars ==
  <<configVars, watcherVars, historyVars, classifierVars, soundVars, updaterVars,
    pickerVars>>

\* const STATE (STATE is a reserved word of TLA+)
State == [IDLE |-> "idle", PROMPT |-> "prompt", NOTIFIED |-> "notified"]

\* the closure state of one watch() call, as the handlers see and change it;
\* calls collects the onTrigger invocations of the running handler, and
\* reentered tells that the callback's own onUserInput call returned true
W == [state |-> state, idleTimer |-> idleTimer, hadOutput |-> hadOutput,
      userHasInteracted |-> userHasInteracted, awaitingResponse |-> awaitingResponse,
      stopped |-> stopped, timers |-> timers, calls |-> <<>>,
      onTrigger |-> onTrigger, reentered |-> FALSE]

\* ------------------------------------------------------------------------
\* The event loop's timers, as setTimeout / clearTimeout treat them
\* ------------------------------------------------------------------------
\* setTimeout(cb, ms): a delay below 1 ms is run as 1 ms
TimeoutDelay(ms) == IF ms < 1 THEN 1 ELSE ms

\* a handle no live timer and no kept handle is using
FreshTimerId(w) ==
  1 + Max(w.idleTimer,
          IF w.timers = {} THEN 0
          ELSE CHOOSE m \in {t.id : t \in w.timers} : \A t \in w.timers : t.id <= m)

\* ------------------------------------------------------------------------
\* watch(): the closure's functions, each from closure state to closure state
\* ------------------------------------------------------------------------
\* clearIdleTimer() as it would be if it forgot the handle without
\* calling clearTimeout
clearIdleTimer_NoClearTimeout(w) == [w EXCEPT !.idleTimer = 0]

\* function clearIdleTimer()
clearIdleTimer(w) ==
  IF w.idleTimer # 0
    THEN [w EXCEPT !.timers = {t \in w.timers : t.id # w.idleTimer},
                   !.idleTimer = 0]
    ELSE w

\* resetIdle() as it would be if it cancelled the timer without scheduling
resetIdle_NoSchedule(w, ms) == clearIdleTimer(w)

\* resetIdle() as it would be if it scheduled without cancelling first
resetIdle_NoClear(w, ms) ==
  LET id == FreshTimerId(w)
  IN [w EXCEPT !.timers = @ \cup {[id |-> id, remaining |-> TimeoutDelay(ms)]},
               !.idleTimer = id]

\* function resetIdle()
resetIdle(w, ms) ==
  LET w1 == clearIdleTimer(w)
      id == FreshTimerId(w1)
  IN [w1 EXCEPT !.timers = @ \cup {[id |-> id, remaining |-> TimeoutDelay(ms)]},
                !.idleTimer = id]

\* onUserInput as it would be without the isMeaningfulUserInput check
onUserInput_NoMeaningfulCheck(w, data) ==
  IF w.stopped THEN [w |-> w, ret |-> FALSE]
  ELSE
    LET w1 == [w EXCEPT !.userHasInteracted = TRUE,
                        !.state = State.IDLE,
                        !.hadOutput = FALSE]
        w2 == [clearIdleTimer(w1) EXCEPT !.awaitingResponse = FALSE]
        w3 == IF isSubmission(data) THEN [w2 EXCEPT !.awaitingResponse = TRUE] ELSE w2
    IN [w |-> w3, ret |-> TRUE]

\* onUserInput as it would be if it cancelled the timer before classifying
onUserInput_ClearsTimerFirst(w, data) ==
  IF w.stopped THEN [w |-> w, ret |-> FALSE]
  ELSE IF ~isMeaningfulUserInput(data) THEN [w |-> clearIdleTimer(w), ret |-> FALSE]
  ELSE
    LET w1 == [w EXCEPT !.userHasInteracted = TRUE,
                        !.state = State.IDLE,
                        !.hadOutput = FALSE]
        w2 == [clearIdleTimer(w1) EXCEPT !.awaitingResponse = FALSE]
        w3 == IF isSubmission(data) THEN [w2 EXCEPT !.awaitingResponse = TRUE] ELSE w2
    IN [w |-> w3, ret |-> TRUE]

\* onUserInput as it would be if it did not clear awaitingResponse
onUserInput_KeepsAwaiting(w, data) ==
  IF w.stopped THEN [w |-> w, ret |-> FALSE]
  ELSE IF ~isMeaningfulUserInput(data) THEN [w |-> w, ret |-> FALSE]
  ELSE
    LET w1 == [w EXCEPT !.userHasInteracted = TRUE,
                        !.state = State.IDLE,
                        !.hadOutput = FALSE]
        w2 == clearIdleTimer(w1)
        w3 == IF isSubmission(data) THEN [w2 EXCEPT !.awaitingResponse = TRUE] ELSE w2
    IN [w |-> w3, ret |-> TRUE]

\* onUserInput as it would be if a submission started the silence window
onUserInput_ArmsOnSubmission(w, data) ==
  IF w.stopped THEN [w |-> w, ret |-> FALSE]
  ELSE IF ~isMeaningfulUserInput(data) THEN [w |-> w, ret |-> FALSE]
  ELSE
    LET w1 == [w EXCEPT !.userHasInteracted = TRUE,
                        !.state = State.IDLE,
                        !.hadOutput = FALSE]
        w2 == [clearIdleTimer(w1) EXCEPT !.awaitingResponse = FALSE]
        w3 == IF isSubmission(data)
                THEN resetIdle([w2 EXCEPT !.awaitingResponse = TRUE, !.hadOutput = TRUE],
                               idleMs)
                ELSE w2
    IN [w |-> w3, ret |-> TRUE]

\* onUserInput as it would be if it did not cancel the timer
onUserInput_KeepsTimer(w, data) ==
  IF w.stopped THEN [w |-> w, ret |-> FALSE]
  ELSE IF ~isMeaningfulUserInput(data) THEN [w |-> w, ret |-> FALSE]
  ELSE
    LET w1 == [w EXCEPT !.userHasInteracted = TRUE,
                        !.state = State.IDLE,
                        !.hadOutput = FALSE]
        w2 == [w1 EXCEPT !.awaitingResponse = FALSE]
        w3 == IF isSubmission(data) THEN [w2 EXCEPT !.awaitingResponse = TRUE] ELSE w2
    IN [w |-> w3, ret |-> TRUE]

\* onUserInput as it would be if typing without submitting left the cycle of
\* the last submission running
onUserInput_TypingKeepsCycle(w, data) ==
  IF w.stopped THEN [w |-> w, ret |-> FALSE]
  ELSE IF ~isMeaningfulUserInput(data) THEN [w |-> w, ret |-> FALSE]
  ELSE
    LET w1 == [w EXCEPT !.userHasInteracted = TRUE,
                        !.state = State.IDLE,
                        !.hadOutput = FALSE]
        w3 == IF isSubmission(data)
                THEN [clearIdleTimer(w1) EXCEPT !.awaitingResponse = TRUE]
                ELSE w1
    IN [w |-> w3, ret |-> TRUE]

\* onUserInput(data): the closure state it leaves and the value it returns
onUserInput(w, data) ==
  IF w.stopped THEN [w |-> w, ret |-> FALSE]
  ELSE IF ~isMeaningfulUserInput(data) THEN [w |-> w, ret |-> FALSE]
  ELSE
    LET w1 == [w EXCEPT !.userHasInteracted = TRUE,
                        !.state = State.IDLE,
                        !.hadOutput = FALSE]
        w2 == [clearIdleTimer(w1) EXCEPT !.awaitingResponse = FALSE]
        w3 == IF isSubmission(data) THEN [w2 EXCEPT !.awaitingResponse = TRUE] ELSE w2
    IN [w |-> w3, ret |-> TRUE]

\* stop() as it would be if it cancelled the timer but never set the flag
stop_NoFlag(w) == clearIdleTimer(w)

\* stop()
stop(w) ==
  IF w.stopped THEN w
  ELSE clearIdleTimer([w EXCEPT !.stopped = TRUE])

\* getState()
getState == state

\* trigger() as it would be if it forgot to enter NOTIFIED after the callback
trigger_KeepsState(w, reason) ==
  IF w.stopped \/ w.state = State.NOTIFIED THEN w
  ELSE LET w1 == [w EXCEPT !.awaitingResponse = FALSE]
       IN [w1 EXCEPT !.calls = Append(@, [reason |-> reason, state |-> w1.state])]

\* trigger() as it would be if it left awaitingResponse as it is
trigger_KeepsAwaiting(w, reason) ==
  IF w.stopped \/ w.state = State.NOTIFIED THEN w
  ELSE LET w2 == IF reason = "prompt" THEN [w EXCEPT !.state = State.PROMPT] ELSE w
           w3 == [w2 EXCEPT !.calls = Append(@, [reason |-> reason, state |-> w2.state])]
       IN [w3 EXCEPT !.state = State.NOTIFIED]

\* trigger() as it would be if it never entered PROMPT around the callback
trigger_NoPromptPhase(w, reason) ==
  IF w.stopped \/ w.state = State.NOTIFIED THEN w
  ELSE LET w1 == [w EXCEPT !.awaitingResponse = FALSE]
           w3 == [w1 EXCEPT !.calls = Append(@, [reason |-> reason, state |-> w1.state])]
       IN [w3 EXCEPT !.state = State.NOTIFIED]

\* onTrigger(reason): the caller's callback runs inside trigger(); it sees the
\* state as it is at the call, and may call the returned object's methods
CallOnTrigger(w, reason) ==
  LET w1 == [w EXCEPT !.calls = Append(@, [reason |-> reason, state |-> w.state])]
  IN IF w.onTrigger.call = "onUserInput"
       THEN LET r == onUserInput(w1, w.onTrigger.data)
            IN [r.w EXCEPT !.reentered = r.ret]
     ELSE IF w.onTrigger.call = "stop" THEN stop(w1)
     ELSE w1

\* function trigger(reason)
trigger(w, reason) ==
  IF w.stopped \/ w.state = State.NOTIFIED THEN w
  ELSE LET w1 == [w EXCEPT !.awaitingResponse = FALSE]
           w2 == IF reason = "prompt" THEN [w1 EXCEPT !.state = State.PROMPT] ELSE w1
           w3 == CallOnTrigger(w2, reason)
       IN [w3 EXCEPT !.state = State.NOTIFIED]

\* the callback resetIdle hands to setTimeout
idleTimeout(w) ==
  IF w.stopped \/ w.state # State.IDLE THEN w
  ELSE IF ~w.hadOutput \/ ~w.userHasInteracted \/ ~w.awaitingResponse THEN w
  ELSE trigger(w, "idle")

\* the onData handler as it would be without the userHasInteracted guard
onData_NoInteractionCheck(w, data, cfg) ==
  IF w.stopped THEN w
  ELSE
    LET w1 == [w EXCEPT !.hadOutput = TRUE]
        cleanData == stripAnsi(data)
        inspect == w1.state = State.IDLE
    IN IF inspect /\ w1.awaitingResponse /\ AnyMatch(CLAUDE_IDLE_PATTERNS, cleanData)
         THEN trigger(clearIdleTimer(w1), "idle")
       ELSE IF inspect /\ AnyMatch(cfg.promptPatterns, cleanData)
         THEN trigger(clearIdleTimer(w1), "prompt")
       ELSE IF w1.state = State.IDLE /\ cfg.enableIdle /\ w1.awaitingResponse
         THEN resetIdle(w1, cfg.idleMs)
       ELSE w1

\* the onData handler as it would be if prompt patterns were tested only
\* while awaitingResponse
onData_PromptNeedsAwaiting(w, data, cfg) ==
  IF w.stopped THEN w
  ELSE
    LET w1 == [w EXCEPT !.hadOutput = TRUE]
        cleanData == stripAnsi(data)
        inspect == w1.state = State.IDLE /\ w1.userHasInteracted /\ w1.awaitingResponse
    IN IF inspect /\ AnyMatch(CLAUDE_IDLE_PATTERNS, cleanData)
         THEN trigger(clearIdleTimer(w1), "idle")
       ELSE IF inspect /\ AnyMatch(cfg.promptPatterns, cleanData)
         THEN trigger(clearIdleTimer(w1), "prompt")
       ELSE IF w1.state = State.IDLE /\ cfg.enableIdle /\ w1.awaitingResponse
         THEN resetIdle(w1, cfg.idleMs)
       ELSE w1

\* the onData handler as it would be if the agent-idle-prompt patterns were
\* tested without the awaitingResponse guard
onData_IdleNoAwaiting(w, data, cfg) ==
  IF w.stopped THEN w
  ELSE
    LET w1 == [w EXCEPT !.hadOutput = TRUE]
        cleanData == stripAnsi(data)
        inspect == w1.state = State.IDLE /\ w1.userHasInteracted
    IN IF inspect /\ AnyMatch(CLAUDE_IDLE_PATTERNS, cleanData)
         THEN trigger(clearIdleTimer(w1), "idle")
       ELSE IF inspect /\ AnyMatch(cfg.promptPatterns, cleanData)
         THEN trigger(clearIdleTimer(w1), "prompt")
       ELSE IF w1.state = State.IDLE /\ cfg.enableIdle /\ w1.awaitingResponse
         THEN resetIdle(w1, cfg.idleMs)
       ELSE w1

\* the onData handler as it would be if the silence timer ignored enableIdle
onData_TimerIgnoresEnable(w, data, cfg) ==
  IF w.stopped THEN w
  ELSE
    LET w1 == [w EXCEPT !.hadOutput = TRUE]
        cleanData == stripAnsi(data)
        inspect == w1.state = State.IDLE /\ w1.userHasInteracted
    IN IF inspect /\ w1.awaitingResponse /\ AnyMatch(CLAUDE_IDLE_PATTERNS, cleanData)
         THEN trigger(clearIdleTimer(w1), "idle")
       ELSE IF inspect /\ AnyMatch(cfg.promptPatterns, cleanData)
         THEN trigger(clearIdleTimer(w1), "prompt")
       ELSE IF w1.state = State.IDLE /\ w1.awaitingResponse
         THEN resetIdle(w1, cfg.idleMs)
       ELSE w1

\* the onData handler as it would be if it did not record hadOutput
onData_NoHadOutput(w, data, cfg) ==
  IF w.stopped THEN w
  ELSE
    LET cleanData == stripAnsi(data)
        inspect == w.state = State.IDLE /\ w.userHasInteracted
    IN IF inspect /\ w.awaitingResponse /\ AnyMatch(CLAUDE_IDLE_PATTERNS, cleanData)
         THEN trigger(clearIdleTimer(w), "idle")
       ELSE IF inspect /\ AnyMatch(cfg.promptPatterns, cleanData)
         THEN trigger(clearIdleTimer(w), "prompt")
       ELSE IF w.state = State.IDLE /\ cfg.enableIdle /\ w.awaitingResponse
         THEN resetIdle(w, cfg.idleMs)
       ELSE w

\* the onData handler as it would be if it tested promptPatterns first
onData_PromptFirst(w, data, cfg) ==
  IF w.stopped THEN w
  ELSE
    LET w1 == [w EXCEPT !.hadOutput = TRUE]
        cleanData == stripAnsi(data)
        inspect == w1.state = State.IDLE /\ w1.userHasInteracted
    IN IF inspect /\ AnyMatch(cfg.promptPatterns, cleanData)
         THEN trigger(clearIdleTimer(w1), "prompt")
       ELSE IF inspect /\ w1.awaitingResponse /\ AnyMatch(CLAUDE_IDLE_PATTERNS, cleanData)
         THEN trigger(clearIdleTimer(w1), "idle")
       ELSE IF w1.state = State.IDLE /\ cfg.enableIdle /\ w1.awaitingResponse
         THEN resetIdle(w1, cfg.idleMs)
       ELSE w1

\* the onData handler as it would be if it left a running timer alone
onData_KeepsRunningTimer(w, data, cfg) ==
  IF w.stopped THEN w
  ELSE
    LET w1 == [w EXCEPT !.hadOutput = TRUE]
        cleanData == stripAnsi(data)
        inspect == w1.state = State.IDLE /\ w1.userHasInteracted
    IN IF inspect /\ w1.awaitingResponse /\ AnyMatch(CLAUDE_IDLE_PATTERNS, cleanData)
         THEN trigger(clearIdleTimer(w1), "idle")
       ELSE IF inspect /\ AnyMatch(cfg.promptPatterns, cleanData)
         THEN trigger(clearIdleTimer(w1), "prompt")
       ELSE IF w1.state = State.IDLE /\ cfg.enableIdle /\ w1.awaitingResponse
         THEN IF w1.timers # {} THEN w1 ELSE resetIdle(w1, cfg.idleMs)
       ELSE w1

\* the handler given to pty.onData
onData(w, data, cfg) ==
  IF w.stopped THEN w
  ELSE
    LET w1 == [w EXCEPT !.hadOutput = TRUE]
        cleanData == stripAnsi(data)
        inspect == w1.state = State.IDLE /\ w1.userHasInteracted
    IN IF inspect /\ w1.awaitingResponse /\ AnyMatch(CLAUDE_IDLE_PATTERNS, cleanData)
         THEN trigger(clearIdleTimer(w1), "idle")
       ELSE IF inspect /\ AnyMatch(cfg.promptPatterns, cleanData)
         THEN trigger(clearIdleTimer(w1), "prompt")
       ELSE IF w1.state = State.IDLE /\ cfg.enableIdle /\ w1.awaitingResponse
         THEN resetIdle(w1, cfg.idleMs)
       ELSE w1

\* the resolution of idleMs as it would be if watch() itself rejected
\* zero and negative values
ResolveIdleMs_PositiveOnly(opts) ==
  IF opts.idleMs.kind = "number" /\ opts.idleMs.value > 0
    THEN opts.idleMs.value ELSE DEFAULT_IDLE_MS

\* const idleMs = Number.isFinite(options.idleMs) ? options.idleMs : DEFAULT_IDLE_MS
ResolveIdleMs(opts) ==
  IF opts.idleMs.kind = "number" THEN opts.idleMs.value ELSE DEFAULT_IDLE_MS

\* const enableIdle = options.enableIdle !== false
ResolveEnableIdle(opts) == opts.enableIdle # "false"

\* const promptPatterns = Array.isArray(..) && length > 0 ? options.promptPatterns : PROMPT_PATTERNS
ResolvePromptPatterns(opts) ==
  IF opts.hasPromptPatterns /\ Len(opts.promptPatterns) > 0
    THEN opts.promptPatterns ELSE PROMPT_PATTERNS

\* the resolved configuration the handlers close over
Cfg == [idleMs |-> idleMs, enableIdle |-> enableIdle, promptPatterns |-> promptPatterns]

\* ------------------------------------------------------------------------
\* bin/blooop.js: BLOOOP_IDLE_MS
\* ------------------------------------------------------------------------
IsDigit(c) == c >= 48 /\ c <= 57

\* the value of the run of decimal digits of text that starts at i
RECURSIVE ParseDigits(_, _, _)
ParseDigits(text, i, acc) ==
  IF i <= Len(text) /\ IsDigit(text[i])
    THEN ParseDigits(text, i + 1, acc * 10 + (text[i] - 48))
    ELSE acc

\* the index of the first unit of text at or after i that is not white space
RECURSIVE SkipWhiteSpace(_, _)
SkipWhiteSpace(text, i) ==
  IF i <= Len(text) /\ IsWhiteSpace(text[i]) THEN SkipWhiteSpace(text, i + 1) ELSE i

\* Number.parseInt(text, 10): leading white space, an optional sign, then
\* digits up to the first unit that is not one; NaN when there is no digit
parseInt(text) ==
  LET i == SkipWhiteSpace(text, 1)
      neg == i <= Len(text) /\ text[i] = 45
      j == IF i <= Len(text) /\ text[i] \in {43, 45} THEN i + 1 ELSE i
  IN IF j <= Len(text) /\ IsDigit(text[j])
       THEN Num((IF neg THEN 0 - 1 ELSE 1) * ParseDigits(text, j, 0))
       ELSE NaNOption

\* values of the environment variable: unset, "", "0", "-5", "20", "abc",
\* "12abc", " 7", "+3"
EnvIdleMs ==
  { Undefined, Str(<<>>), Str(<<48>>), Str(<<45, 53>>), Str(<<50, 48>>),
    Str(<<97, 98, 99>>), Str(<<49, 50, 97, 98, 99>>), Str(<<32, 55>>), Str(<<43, 51>>) }

\* const idleMsFromEnv = Number.parseInt(process.env.BLOOOP_IDLE_MS || '', 10)
idleMsFromEnv(env) == parseInt(IF env.kind = "undefined" THEN <<>> ELSE env.text)

\* idleMs: Number.isFinite(idleMsFromEnv) && idleMsFromEnv > 0 ? idleMsFromEnv : undefined
BinIdleMsOption(env) ==
  LET n == idleMsFromEnv(env)
  IN IF n.kind = "number" /\ n.value > 0 THEN n ELSE NoOption

\* ------------------------------------------------------------------------
\* Initial state and actions
\* ------------------------------------------------------------------------
NoData == [kind |-> "none", text |-> <<>>]
Event(op, data, ret) == [op |-> op, data |-> data, ret |-> ret]

\* ------------------------------------------------------------------------
\* The input classifier on its own
\* ------------------------------------------------------------------------
\* ESC [ O I A h DEL CR: what escape sequences, focus events, arrow keys,
\* backspaces, text and submissions are made of
ClassifierAlphabet == {ESC, 91, 79, 73, 65, 104, 127, CR}

\* the chunks the terminal sends for keys that compose nothing: empty, ESC,
\* ESC ESC, focus in / out, backspace (DEL or BS), and the arrow keys in
\* their CSI form (ESC [ A..D) and application-cursor form (ESC O A..D)
NoiseChunks ==
  { <<>>, <<ESC>>, <<ESC, ESC>>, <<ESC, 91, 73>>, <<ESC, 91, 79>>, <<127>>, <<8>> }
    \cup { <<ESC, 91, c>> : c \in 65..68 }
    \cup { <<ESC, 79, c>> : c \in 65..68 }

\* the values the classifier is applied to
ClassifierInputs ==
  {Undefined}
    \cup { Str(t) : t \in UNION { [1..n -> ClassifierAlphabet] : n \in 0..MaxClassifyLen } }
    \cup { Str(t) : t \in NoiseChunks }
    \cup { Str(<<LF>>), Str(<<104, LF>>) }

\* nothing classified yet
ClsNone ==
  [data |-> NoData, done |-> FALSE, meaningful |-> FALSE, submission |-> FALSE,
   ret |-> FALSE, state |-> "none", awaitingResponse |-> FALSE]

\* isMeaningfulUserInput(data), isSubmission(data) and watcher.onUserInput(data)
\* are evaluated on the chunk, the watcher being as it is (and left as it is)
Classify ==
  /\ ~cls.done
  /\ cls.data.kind # "none"
  /\ LET r == onUserInput(W, cls.data)
     IN cls' = [data |-> cls.data, done |-> TRUE,
                meaningful |-> isMeaningfulUserInput(cls.data),
                submission |-> isSubmission(cls.data),
                ret |-> r.ret, state |-> r.w.state,
                awaitingResponse |-> r.w.awaitingResponse]
  /\ UNCHANGED <<configVars, watcherVars, historyVars, soundVars, updaterVars, pickerVars>>

\* the callback bin/blooop.js hands to watch(): it calls notify() and
\* nothing of the watcher
HostCallback == [call |-> "notify", data |-> NoData]

\* callbacks that call back into the watcher: one types, one submits, one stops
ReentrantCallbacks ==
  { [call |-> "onUserInput", data |-> Str(<<121>>)],
    [call |-> "onUserInput", data |-> Str(<<121, CR>>)],
    [call |-> "stop", data |-> NoData] }

\* watch(pty, onTrigger, options) has returned
WatcherInit ==
  /\ options \in OptionsSet
  /\ onTrigger \in {HostCallback} \cup ReentrantCallbacks
  /\ idleMs = ResolveIdleMs(options)
  /\ enableIdle = ResolveEnableIdle(options)
  /\ promptPatterns = ResolvePromptPatterns(options)
  /\ state = State.IDLE
  /\ idleTimer = 0
  /\ hadOutput = FALSE
  /\ userHasInteracted = FALSE
  /\ awaitingResponse = FALSE
  /\ stopped = FALSE
  /\ timers = {}
  /\ lastEvent = Event("watch", NoData, FALSE)
  /\ fired = <<>>
  /\ triggersSinceRearm = 0
  /\ everRearmed = FALSE
  /\ submitPending = FALSE
  /\ outputSinceRearm = FALSE
  /\ stopCalled = FALSE
  /\ msSinceOutput = 0
  /\ superseded = FALSE
  /\ reentered = FALSE

\* ------------------------------------------------------------------------
\* notify.js: the sound player and its fallback chain
\* ------------------------------------------------------------------------
\* process.platform; one value stands for every platform without a player
Platforms == {"darwin", "linux", "win32", "freebsd"}

\* function getPlayers(soundPath): the commands, in the order they are tried
getPlayers(pf) ==
  IF pf = "darwin" THEN <<"afplay">>
  ELSE IF pf = "linux" THEN <<"paplay", "aplay">>
  ELSE IF pf = "win32" THEN <<"powershell", "pwsh">>
  ELSE <<>>

\* the code of an 'exit' event: a number, or null when a signal ended the process
NullCode == [kind |-> "null", value |-> 0]
ExitCodes == {Num(0), Num(1), NullCode}

\* err.code of an 'error' event: the command does not exist, or something
\* else went wrong (kill() failed)
ErrorCodes == {"ENOENT", "EPERM"}

\* the module state notify() and the chain work on
S == [soundProc |-> soundProc, procs |-> procs,
      lastNotifyAt |-> lastNotifyAt, notifications |-> notifications]

\* the number of playSound() calls that have spawned a player
ChainCount == Cardinality({procs[i].chain : i \in 1..Len(procs)})

\* const proc = spawn(command, args, ...), with its closure variable advanced;
\* found tells whether the command exists, events are the events handled so far
SpawnedProc(chain, idx, found) ==
  [chain |-> chain, idx |-> idx, command |-> getPlayers(platform)[idx],
   found |-> found, advanced |-> FALSE, killed |-> FALSE, events |-> <<>>]

\* function playWithFallback(players, idx); idx counts from 1 here
playWithFallback(s, chain, idx, found) ==
  IF idx > Len(getPlayers(platform)) THEN s
  ELSE [s EXCEPT !.procs = Append(@, SpawnedProc(chain, idx, found)),
                 !.soundProc = Len(s.procs) + 1]

\* if (soundProc === proc) soundProc = null
ReleaseSoundProc(s, p) == IF s.soundProc = p THEN [s EXCEPT !.soundProc = 0] ELSE s

\* tryNext() as it would be without the advanced guard
tryNext_NoGuard(s, p, found) ==
  LET s1 == [s EXCEPT !.procs[p].advanced = TRUE]
  IN playWithFallback(ReleaseSoundProc(s1, p), s.procs[p].chain, s.procs[p].idx + 1, found)

\* function tryNext() of the closure of process p
tryNext(s, p, found) ==
  IF s.procs[p].advanced THEN s
  ELSE LET s1 == [s EXCEPT !.procs[p].advanced = TRUE]
       IN playWithFallback(ReleaseSoundProc(s1, p),
                           s.procs[p].chain, s.procs[p].idx + 1, found)

\* proc.once('error', (err) => ...)
onError(s, p, code, found) ==
  LET s1 == [s EXCEPT !.procs[p].events = Append(@, [type |-> "error", code |-> code])]
      s2 == ReleaseSoundProc(s1, p)
  IN IF code = "ENOENT" THEN tryNext(s2, p, found) ELSE s2

\* the 'exit' handler as it would be if only a null code stopped the chain
onExit_AnyNumber(s, p, code, found) ==
  LET s1 == [s EXCEPT !.procs[p].events = Append(@, [type |-> "exit", code |-> code])]
      s2 == ReleaseSoundProc(s1, p)
  IN IF code.kind = "number" THEN tryNext(s2, p, found) ELSE s2

\* proc.once('exit', (code) => ...)
onExit(s, p, code, found) ==
  LET s1 == [s EXCEPT !.procs[p].events = Append(@, [type |-> "exit", code |-> code])]
      s2 == ReleaseSoundProc(s1, p)
  IN IF code.kind = "number" /\ code.value # 0 THEN tryNext(s2, p, found) ELSE s2

\* function playSound(config)
playSound(s, found) ==
  LET s1 == IF s.soundProc # 0
              THEN [s EXCEPT !.procs[s.soundProc].killed = TRUE, !.soundProc = 0]
              ELSE s
  IN IF Len(getPlayers(platform)) = 0 THEN s1
     ELSE playWithFallback(s1, ChainCount + 1, 1, found)

\* const COOLDOWN_MS
COOLDOWN_MS == 8000

\* notify() as it would be if it recorded the time before looking at muted
notify_MutedConsumesCooldown(s, t, config, found) ==
  IF t - s.lastNotifyAt < COOLDOWN_MS THEN s
  ELSE LET s1 == [s EXCEPT !.lastNotifyAt = t]
       IN IF config.muted THEN s1
          ELSE [playSound(s1, found) EXCEPT !.notifications = Append(@, t)]

\* function notify(), with t what Date.now() returns and config what
\* loadConfig() returns
notify(s, t, config, found) ==
  IF t - s.lastNotifyAt < COOLDOWN_MS THEN s
  ELSE IF config.muted THEN s
  ELSE LET s1 == [s EXCEPT !.lastNotifyAt = t]
       IN [playSound(s1, found) EXCEPT !.notifications = Append(@, t)]

\* the module state becomes s
SoundCommit(s) ==
  /\ soundProc' = s.soundProc
  /\ procs' = s.procs
  /\ lastNotifyAt' = s.lastNotifyAt
  /\ notifications' = s.notifications
  /\ UNCHANGED <<platform, configVars, watcherVars, historyVars, classifierVars, updaterVars,
                 pickerVars>>

HasEvent(p, type) == \E i \in 1..Len(procs[p].events) : procs[p].events[i].type = type

\* notify() calls playSound(config); the first command exists or does not
PlaySound ==
  /\ ChainCount < MaxChains
  /\ \E found \in BOOLEAN : SoundCommit(playSound(S, found))
  /\ UNCHANGED clockVars

\* a later notify() calls playSound(config) while a player is in flight; the
\* cooldown lies between the calls, so this player's command was found
Replay ==
  /\ soundProc # 0
  /\ procs[soundProc].found
  /\ ChainCount < MaxChains + 1
  /\ \E found \in BOOLEAN : SoundCommit(playSound(S, found))
  /\ UNCHANGED clockVars

\* the time between two notify() calls: just under the cooldown, or the cooldown
ElapsedMs == {COOLDOWN_MS - 1, COOLDOWN_MS}

\* the watcher's callback calls notify(), elapsed ms after the call before;
\* ~/.blooop.json says muted or does not
Notify ==
  /\ lastCall.count < MaxNotifyCalls
  /\ \E elapsed \in ElapsedMs, muted \in BOOLEAN, found \in BOOLEAN :
       /\ now' = now + elapsed
       /\ lastCall' = [at |-> now', muted |-> muted, count |-> lastCall.count + 1]
       /\ SoundCommit(notify(S, now', [muted |-> muted], found))

\* process p emits 'error': ENOENT when its command does not exist, another
\* code when it does; the once-handler runs for the first 'error' only
ProcError(p) ==
  /\ ~HasEvent(p, "error")
  /\ \E code \in ErrorCodes, found \in BOOLEAN :
       /\ (code = "ENOENT") = ~procs[p].found
       /\ SoundCommit(onError(S, p, code, found))
  /\ UNCHANGED clockVars

\* process p emits 'exit'; a command that does not exist never exits with 0
ProcExit(p) ==
  /\ ~HasEvent(p, "exit")
  /\ \E code \in ExitCodes, found \in BOOLEAN :
       /\ ~procs[p].found => code # Num(0)
       /\ SoundCommit(onExit(S, p, code, found))
  /\ UNCHANGED clockVars

\* let lastNotifyAt = 0, no notify() call yet; Date.now() has left the first
\* seconds of 1970 behind
NotifyInit ==
  /\ lastNotifyAt = 0
  /\ notifications = <<>>
  /\ now = COOLDOWN_MS
  /\ lastCall = [at |-> 0, muted |-> FALSE, count |-> 0]

\* notify.js has been loaded
SoundInit ==
  /\ platform = "linux"
  /\ soundProc = 0
  /\ procs = <<>>
  /\ NotifyInit

\* ------------------------------------------------------------------------
\* updater.js: the update check and its cache file
\* ------------------------------------------------------------------------
\* the blooop processes that share one home directory
Writers == {1, 2}

\* if (data.length + chunk.length > 65536)
MaxBodyBytes == 65536

\* lengths of the chunks a response delivers
ChunkLengths == {1000, 70000}

\* res.statusCode
StatusCodes == {200, 404}

\* JSON values other than strings that the version field may hold
JsNull == [kind |-> "null", text |-> <<>>]
JsNumber == [kind |-> "number", text |-> <<>>]

\* "1.0.0", "1.0.1", "1.0.10", "v1.0.1", "1.2", "x"
V100 == <<49, 46, 48, 46, 48>>
V101 == <<49, 46, 48, 46, 49>>
V1010 == <<49, 46, 48, 46, 49, 48>>
Vv101 == <<118, 49, 46, 48, 46, 49>>
V12 == <<49, 46, 50>>
Vx == <<120>>

\* JSON.parse(data).version of a body that parses: no such field, null, a
\* number, or a string
VersionValues ==
  {Undefined, JsNull, JsNumber, Str(<<>>), Str(V101), Str(V1010), Str(Vv101), Str(V12), Str(Vx)}

\* the bodies a response may carry: one that JSON.parse rejects, or an object
Bodies == {[parses |-> FALSE, version |-> Undefined]}
            \cup {[parses |-> TRUE, version |-> v] : v \in VersionValues}

\* a numeric identifier of a version: digits without a leading zero
IsNumericIdentifier(t) ==
  /\ Len(t) > 0
  /\ \A i \in 1..Len(t) : IsDigit(t[i])
  /\ Len(t) > 1 => t[1] # 48

\* semver.valid(latest) is not null: a string of the form v?N.N.N (the
\* versions here carry no pre-release or build part and no surrounding space)
semverValid(latest) ==
  /\ latest.kind = "string"
  /\ LET t == latest.text
         core == IF Len(t) > 0 /\ t[1] = 118 THEN Tail(t) ELSE t
     IN \E a, b \in 1..Len(core) :
          /\ a < b /\ core[a] = 46 /\ core[b] = 46
          /\ IsNumericIdentifier(SubSeq(core, 1, a - 1))
          /\ IsNumericIdentifier(SubSeq(core, a + 1, b - 1))
          /\ IsNumericIdentifier(SubSeq(core, b + 1, Len(core)))

\* the truthiness of a JSON value
Truthy(v) == (v.kind = "string" /\ Len(v.text) > 0) \/ v.kind = "number"

\* JSON.stringify(data, null, 2) + '\n', reduced to the latest field between
\* braces
Stringify(latest) == <<123>> \o latest.text \o <<125, LF>>

\* the text without the line feeds at its end
RECURSIVE TrimEnd(_)
TrimEnd(t) == IF Len(t) > 0 /\ t[Len(t)] = LF THEN TrimEnd(SubSeq(t, 1, Len(t) - 1)) ELSE t

\* what loadCache() returns when the file is missing or does not parse
EmptyCache == [kind |-> "empty", latest |-> Undefined]

\* JSON.parse of the file's text, {} when it throws
ParseCache(content) ==
  LET t == TrimEnd(content)
  IN IF /\ Len(t) >= 2 /\ t[1] = 123 /\ t[Len(t)] = 125
        /\ \A i \in 2..(Len(t) - 1) : t[i] \notin {123, 125, LF}
       THEN [kind |-> "object", latest |-> Str(SubSeq(t, 2, Len(t) - 1))]
       ELSE EmptyCache

\* function loadCache()
loadCache ==
  IF files.cache = 0 THEN EmptyCache ELSE ParseCache(inodes[files.cache])

\* write(fd, content) at offset 0 of a file that holds old
Overwrite(content, old) == content \o SubSeq(old, Len(content) + 1, Len(old))

\* a process before checkForUpdate(version)
UpdStart ==
  [pc |-> "start", req |-> "none", dataLen |-> 0, chunks |-> 0,
   errorSeen |-> FALSE, timeoutSeen |-> FALSE, saving |-> JsNull, fd |-> 0]

\* the refresh callback as it would be without the semver check
refreshCallback_NoValidCheck(u, latest) ==
  IF latest.kind = "string" THEN [u EXCEPT !.pc = "open", !.saving = latest] ELSE u

\* (latest) => { if (!latest || !semver.valid(latest)) return; saveCache(...) }
refreshCallback(u, latest) ==
  IF ~Truthy(latest) \/ ~semverValid(latest) THEN u
  ELSE [u EXCEPT !.pc = "open", !.saving = latest]

\* process p goes from upd[p] to u and the file system stays as it is
UpdCommit(p, u) ==
  /\ upd' = [upd EXCEPT ![p] = u]
  /\ UNCHANGED <<files, inodes, configVars, watcherVars, historyVars,
                 classifierVars, soundVars, pickerVars>>

\* process p goes from upd[p] to u, the directory becomes f, the files ino
FsCommit(p, u, f, ino) ==
  /\ upd' = [upd EXCEPT ![p] = u]
  /\ files' = f
  /\ inodes' = ino
  /\ UNCHANGED <<configVars, watcherVars, historyVars, classifierVars, soundVars, pickerVars>>

\* function checkForUpdate(currentVersion): the cache is read, and refreshed
\* in the background when it has no checkedAt or is older than a day
CheckForUpdate(p) ==
  /\ upd[p].pc = "start"
  /\ \E stale \in BOOLEAN :
       /\ loadCache.kind = "empty" => stale
       /\ UpdCommit(p, [upd[p] EXCEPT !.pc = "idle",
                                      !.req = IF stale THEN "pending" ELSE "none"])

\* the response arrives: (res) => { if (res.statusCode !== 200) ... }
Response(p) ==
  /\ upd[p].pc = "idle" /\ upd[p].req = "pending"
  /\ \E status \in StatusCodes :
       UpdCommit(p, IF status # 200
                      THEN refreshCallback([upd[p] EXCEPT !.req = "closed"], JsNull)
                      ELSE [upd[p] EXCEPT !.req = "streaming"])

\* res.on('data', chunk => ...)
Data(p) ==
  /\ upd[p].pc = "idle" /\ upd[p].req = "streaming"
  /\ upd[p].chunks < MaxChunks
  /\ \E len \in ChunkLengths :
       UpdCommit(p, IF upd[p].dataLen + len > MaxBodyBytes
                      THEN refreshCallback([upd[p] EXCEPT !.req = "closed"], JsNull)
                      ELSE [upd[p] EXCEPT !.dataLen = @ + len, !.chunks = @ + 1])

\* res.on('end', ...): callback(JSON.parse(data).version || null), null on a throw
End(p) ==
  /\ upd[p].pc = "idle" /\ upd[p].req = "streaming"
  /\ \E body \in Bodies :
       UpdCommit(p, refreshCallback([upd[p] EXCEPT !.req = "closed"],
                                    IF body.parses /\ Truthy(body.version)
                                      THEN body.version ELSE JsNull))

\* req.on('error', () => callback(null))
ReqError(p) ==
  /\ upd[p].pc = "idle" /\ upd[p].req # "none"
  /\ ~upd[p].errorSeen
  /\ UpdCommit(p, refreshCallback([upd[p] EXCEPT !.req = "closed", !.errorSeen = TRUE],
                                  JsNull))

\* req.on('timeout', () => { req.destroy(); callback(null); })
Timeout(p) ==
  /\ upd[p].pc = "idle" /\ upd[p].req # "none"
  /\ ~upd[p].timeoutSeen
  /\ UpdCommit(p, refreshCallback([upd[p] EXCEPT !.req = "closed", !.timeoutSeen = TRUE],
                                  JsNull))

\* saveCache, fs.writeFileSync(tmp, ...): open(tmp, O_WRONLY | O_CREAT | O_TRUNC)
SaveOpen(p) ==
  /\ upd[p].pc = "open"
  /\ IF files.tmp = 0
       THEN FsCommit(p, [upd[p] EXCEPT !.pc = "write", !.fd = Len(inodes) + 1],
                     [files EXCEPT !.tmp = Len(inodes) + 1], Append(inodes, <<>>))
       ELSE FsCommit(p, [upd[p] EXCEPT !.pc = "write", !.fd = files.tmp],
                     files, [inodes EXCEPT ![files.tmp] = <<>>])

\* saveCache, fs.writeFileSync(tmp, ...): write(fd, content), close(fd)
SaveWrite(p) ==
  /\ upd[p].pc = "write"
  /\ FsCommit(p, [upd[p] EXCEPT !.pc = "rename", !.fd = 0], files,
              [inodes EXCEPT ![upd[p].fd] = Overwrite(Stringify(upd[p].saving), @)])

\* saveCache, fs.renameSync(tmp, CACHE_PATH): throws when tmp is gone
SaveRename(p) ==
  /\ upd[p].pc = "rename"
  /\ IF files.tmp # 0
       THEN FsCommit(p, [upd[p] EXCEPT !.pc = "idle"],
                     [cache |-> files.tmp, tmp |-> 0], inodes)
       ELSE FsCommit(p, [upd[p] EXCEPT !.pc = "unlink"], files, inodes)

\* saveCache, catch: try { fs.unlinkSync(tmp) } catch (_2) {}
SaveUnlink(p) ==
  /\ upd[p].pc = "unlink"
  /\ FsCommit(p, [upd[p] EXCEPT !.pc = "idle"], [files EXCEPT !.tmp = 0], inodes)

\* updater.js has been loaded; there is no cache file yet
UpdaterInit ==
  /\ files = [cache |-> 0, tmp |-> 0]
  /\ inodes = <<>>
  /\ upd = [p \in Writers |-> UpdStart]

\* ------------------------------------------------------------------------
\* soundpicker.js and the stdin / PTY handlers of bin/blooop.js
\* ------------------------------------------------------------------------
\* setTimeout(() => { restoreScreen(); onDone(); }, 1200)
ConfirmDelayMs == 1200

\* Ctrl+B, Ctrl+C, m, M as stdin delivers them
CtrlB == <<2>>
CtrlC == <<3>>
KeyLowerM == <<109>>
KeyUpperM == <<77>>

\* what JSON.parse of ~/.blooop.json gives: an object with its muted and
\* sound members (sound 0: none, k: the path of option k), null, or a number,
\* string or boolean; a file that is missing or does not parse reads as {}
ConfigFiles ==
  {[kind |-> "object", muted |-> m, sound |-> k] : m \in BOOLEAN, k \in {0} \cup 2..OptionCount}
  \cup {[kind |-> "null", muted |-> FALSE, sound |-> 0],
        [kind |-> "primitive", muted |-> FALSE, sound |-> 0]}

\* chunks stdin may deliver: Ctrl+B, Esc, Ctrl+C, m, M, 1, 2, 3, 9, x, "1x",
\* an arrow key, Enter
PickerKeys ==
  { CtrlB, <<ESC>>, CtrlC, KeyLowerM, KeyUpperM, <<49>>, <<50>>, <<51>>, <<57>>,
    <<120>>, <<49, 120>>, <<ESC, 91, 65>>, <<CR>> }

\* chunks the wrapped process may write: "working", "(y/n)"
PickerChunks == { <<119, 111, 114, 107, 105, 110, 103>>, <<40, 121, 47, 110, 41>> }

\* the state the handlers of bin/blooop.js and the picker work on; done,
\* saves, opened, forwarded, written, terminated and failedWrite tell what
\* the running handlers have done
B == [pickerActive |-> pickerActive, ptyOutputBuffered |-> ptyOutputBuffered,
      keyListeners |-> keyListeners, confirmTimers |-> confirmTimers,
      config |-> blooopJson, crashed |-> FALSE,
      done |-> 0, saves |-> 0, opened |-> FALSE, forwarded |-> FALSE,
      written |-> FALSE, terminated |-> FALSE, failedWrite |-> FALSE]

\* the onDone callback onStdinData hands to showSoundPicker
onDone(b) ==
  [b EXCEPT !.ptyOutputBuffered = FALSE, !.pickerActive = FALSE, !.done = @ + 1]

\* function saveConfig(config); fails tells that writeFileSync or renameSync
\* throws. JSON.stringify of a number, string or boolean gives back the file
saveConfig(b, cfg, fails) ==
  IF fails THEN [b EXCEPT !.saves = @ + 1]
  ELSE [b EXCEPT !.saves = @ + 1, !.config = cfg]

\* const timer = setTimeout(() => { restoreScreen(); onDone(); }, 1200)
setConfirmTimeout(b) == [b EXCEPT !.confirmTimers = Append(@, ConfirmDelayMs)]

\* function onKey(data) of showSoundPicker. cfg.muted = ... throws when cfg is
\* null or, the file being in strict mode, a number, string or boolean;
\* so does cfg.sound = ...; delete cfg.sound throws when cfg is null
onKey(b, key, saveFails) ==
  LET b1 == [b EXCEPT !.keyListeners = @ - 1, !.terminated = TRUE]
      cfg == b.config
      num == parseInt(key)
  IN IF key \in {<<ESC>>, CtrlC, CtrlB} THEN onDone(b1)
     ELSE IF key \in {KeyLowerM, KeyUpperM}
       THEN IF cfg.kind # "object" THEN [b1 EXCEPT !.crashed = TRUE]
            ELSE setConfirmTimeout(saveConfig(b1, [cfg EXCEPT !.muted = ~@], saveFails))
     ELSE IF num.kind = "number" /\ num.value >= 1 /\ num.value <= OptionCount
       THEN IF cfg.kind = "null" \/ (cfg.kind = "primitive" /\ num.value # 1)
              THEN [b1 EXCEPT !.crashed = TRUE]
            ELSE IF cfg.kind = "primitive"
              THEN setConfirmTimeout(saveConfig(b1, cfg, saveFails))
            ELSE setConfirmTimeout(
                   saveConfig(b1, [cfg EXCEPT !.sound = IF num.value = 1 THEN 0 ELSE num.value,
                                              !.muted = FALSE], saveFails))
     ELSE b

\* function showSoundPicker(stdin, stdout, onDone); fails1 and fails2 tell
\* that the first and the second stdout.write throw. config.sound throws
\* when loadConfig() returned null
showSoundPicker(b, fails1, fails2) ==
  LET b1 == [b EXCEPT !.opened = TRUE]
  IN IF fails1 THEN onDone([b1 EXCEPT !.failedWrite = TRUE])
     ELSE IF b1.config.kind = "null" THEN [b1 EXCEPT !.crashed = TRUE]
     ELSE IF fails2 THEN onDone([b1 EXCEPT !.failedWrite = TRUE])
     ELSE [b1 EXCEPT !.keyListeners = @ + 1]

\* onStdinData as it would be without the pickerActive test
onStdinData_NoActiveCheck(b, key, fails1, fails2) ==
  IF key = CtrlB
    THEN showSoundPicker([b EXCEPT !.pickerActive = TRUE, !.ptyOutputBuffered = TRUE],
                         fails1, fails2)
  ELSE [b EXCEPT !.forwarded = TRUE]

\* function onStdinData(data); forwarded stands for watcher.onUserInput(data)
\* and shell.write(data), which the action carries out
onStdinData(b, key, fails1, fails2) ==
  IF b.pickerActive THEN b
  ELSE IF key = CtrlB
    THEN showSoundPicker([b EXCEPT !.pickerActive = TRUE, !.ptyOutputBuffered = TRUE],
                         fails1, fails2)
  ELSE [b EXCEPT !.forwarded = TRUE]

\* stdin emits 'data': the listeners registered when the event is emitted
\* run in the order they were added, onStdinData first; an exception ends it
StdinEmit(b, key, fails1, fails2, saveFails) ==
  LET b1 == onStdinData(b, key, fails1, fails2)
  IN IF b.keyListeners > 0 /\ ~b1.crashed THEN onKey(b1, key, saveFails) ELSE b1

\* function onShellData(data); written stands for process.stdout.write(data)
onShellData(b) == IF b.ptyOutputBuffered THEN b ELSE [b EXCEPT !.written = TRUE]

\* a showSoundPicker() call that has done nothing yet
NoInvocation ==
  [done |-> 0, saves |-> 0, terminated |-> FALSE, failedWrite |-> FALSE]

\* bin/blooop.js has registered its handlers; the picker is closed
PickerStart ==
  /\ pickerActive = FALSE
  /\ ptyOutputBuffered = FALSE
  /\ keyListeners = 0
  /\ confirmTimers = <<>>
  /\ crashed = FALSE
  /\ invocation = NoInvocation
  /\ pkEvent = [op |-> "start", key |-> <<>>, forwarded |-> FALSE, written |-> FALSE,
                opened |-> FALSE, bit |-> 0]

\* the same, with no ~/.blooop.json
PickerInit ==
  /\ PickerStart
  /\ blooopJson = [kind |-> "object", muted |-> FALSE, sound |-> 0]

\* the other modules have been loaded and nothing has called them yet
Init ==
  /\ WatcherInit
  /\ onTrigger = HostCallback
  /\ cls = ClsNone
  /\ SoundInit
  /\ UpdaterInit
  /\ PickerInit

\* handler op has run on argument data, left closure state r and returned ret
CommitClosure(r, op, data, ret) ==
  /\ state' = r.state
  /\ idleTimer' = r.idleTimer
  /\ hadOutput' = r.hadOutput
  /\ userHasInteracted' = r.userHasInteracted
  /\ awaitingResponse' = r.awaitingResponse
  /\ stopped' = r.stopped
  /\ timers' = r.timers
  /\ lastEvent' = Event(op, data, ret)
  /\ fired' = r.calls
  /\ triggersSinceRearm' =
       IF r.reentered THEN 0
       ELSE Min(MaxTriggerCount, (IF ret THEN 0 ELSE triggersSinceRearm) + Len(r.calls))
  /\ everRearmed' = (everRearmed \/ ret \/ r.reentered)
  /\ submitPending' =
       IF Len(r.calls) > 0 THEN FALSE
       ELSE IF ret THEN \E i \in 1..Len(data.text) : data.text[i] \in {CR, LF}
       ELSE submitPending
  /\ outputSinceRearm' = ((outputSinceRearm /\ ~ret) \/ op = "onData") /\ ~r.reentered
  /\ reentered' = r.reentered
  /\ stopCalled' = (stopCalled \/ op = "stop")
  /\ msSinceOutput' = IF op = "onData" THEN 0 ELSE msSinceOutput
  /\ superseded' = (op = "onData" /\ timers # {} /\ r.timers # {} /\ r.timers # timers)

\* the same, for a handler called on the watcher alone
Commit(r, op, data, ret) ==
  /\ CommitClosure(r, op, data, ret)
  /\ UNCHANGED <<configVars, classifierVars, soundVars, updaterVars, pickerVars>>

\* the wrapped process writes a chunk: the pty.onData handler runs
PtyData(data) ==
  /\ data \in OutputChunks
  /\ Commit(onData(W, data, Cfg), "onData", Str(data), FALSE)

\* the host calls watcher.onUserInput(data)
UserInput(data) ==
  /\ data \in UserInputs
  /\ LET r == onUserInput(W, data)
     IN Commit(r.w, "onUserInput", data, r.ret)

\* the host calls watcher.stop()
Stop ==
  /\ stopped \in BOOLEAN    \* callable at any time, also a second time
  /\ Commit(stop(W), "stop", NoData, FALSE)

\* the event loop runs a timeout whose delay has elapsed
TimerFire ==
  \E t \in timers :
    /\ t.remaining = 0
    /\ Commit(idleTimeout([W EXCEPT !.timers = @ \ {t}]), "timeout", NoData, FALSE)

\* TickMs milliseconds pass with no event
Tick ==
  /\ timers' = {[t EXCEPT !.remaining = Max(0, @ - TickMs)] : t \in timers}
  /\ msSinceOutput' = Min(MaxElapsedMs, msSinceOutput + TickMs)
  /\ lastEvent' = Event("tick", NoData, FALSE)
  /\ fired' = <<>>
  /\ superseded' = FALSE
  /\ reentered' = FALSE
  /\ UNCHANGED <<configVars, state, idleTimer, hadOutput, userHasInteracted,
                 awaitingResponse, stopped, triggersSinceRearm, everRearmed,
                 submitPending, outputSinceRearm, stopCalled,
                 classifierVars, soundVars, updaterVars, pickerVars>>

Next ==
  \/ \E data \in OutputChunks : PtyData(data)
  \/ \E data \in UserInputs : UserInput(data)
  \/ Stop
  \/ TimerFire
  \/ Tick

Spec == Init /\ [][Next]_vars

\* the options that resolve to distinct configurations: NaN resolves like an
\* absent idleMs, an empty pattern array like an absent one, and a negative
\* delay is run by setTimeout like a zero one
LiveOptions ==
  {o \in OptionsSet :
     /\ o.idleMs \in {NoOption, Num(0), Num(1000)}
     /\ o.hasPromptPatterns => o.promptPatterns # <<>>}

InitLive == Init /\ options \in LiveOptions

\* the event loop: time keeps passing, and a timeout whose delay has elapsed
\* is eventually run
SpecLive == InitLive /\ [][Next]_vars /\ WF_vars(Tick) /\ WF_vars(TimerFire)

\* a watcher whose callback calls back into it
InitReentrant ==
  /\ WatcherInit
  /\ options \in LiveOptions
  /\ onTrigger \in ReentrantCallbacks
  /\ cls = ClsNone
  /\ SoundInit
  /\ UpdaterInit
  /\ PickerInit

SpecReentrant == InitReentrant /\ [][Next]_vars

\* the watcher as bin/blooop.js creates it when no environment variable is set
PlainOptions ==
  [idleMs |-> NoOption, enableIdle |-> "undefined",
   hasPromptPatterns |-> FALSE, promptPatterns |-> <<>>]

\* a chunk is about to be classified, on a watcher that is new
InitClassify ==
  /\ WatcherInit
  /\ options = PlainOptions
  /\ onTrigger = HostCallback
  /\ cls \in {[ClsNone EXCEPT !.data = d] : d \in ClassifierInputs}
  /\ SoundInit
  /\ UpdaterInit
  /\ PickerInit

\* before the chunk is classified the user may submit a line and the agent
\* may answer with a confirmation prompt, which leaves the watcher NOTIFIED
NextClassify ==
  \/ Classify
  \/ ~cls.done /\ ~everRearmed /\ UserInput(Str(<<CR>>))
  \/ ~cls.done /\ lastEvent.op = "onUserInput" /\ PtyData(<<40, 121, 47, 110, 41>>)

SpecClassify == InitClassify /\ [][NextClassify]_vars

\* notify.js on some platform, next to a new watcher
InitSound ==
  /\ WatcherInit
  /\ options = PlainOptions
  /\ onTrigger = HostCallback
  /\ cls = ClsNone
  /\ platform \in Platforms
  /\ soundProc = 0
  /\ procs = <<>>
  /\ NotifyInit
  /\ UpdaterInit
  /\ PickerInit

NextSound ==
  \/ PlaySound
  \/ \E p \in 1..Len(procs) : ProcError(p)
  \/ \E p \in 1..Len(procs) : ProcExit(p)

SpecSound == InitSound /\ [][NextSound]_vars

\* the same, with a second playSound() call that finds a player in flight
NextReplay ==
  \/ PlaySound
  \/ Replay
  \/ \E p \in 1..Len(procs) : ProcError(p)
  \/ \E p \in 1..Len(procs) : ProcExit(p)

SpecReplay == InitSound /\ [][NextReplay]_vars

\* notify() called again and again, on a platform with one player or none
InitNotify == InitSound /\ platform \in {"darwin", "freebsd"}

NextNotify ==
  \/ Notify
  \/ \E p \in 1..Len(procs) : ProcError(p)
  \/ \E p \in 1..Len(procs) : ProcExit(p)

SpecNotify == InitNotify /\ [][NextNotify]_vars

\* two processes are about to check for an update; the cache file is
\* missing, or holds what an earlier check has written
InitUpdater ==
  /\ WatcherInit
  /\ options = PlainOptions
  /\ onTrigger = HostCallback
  /\ cls = ClsNone
  /\ SoundInit
  /\ PickerInit
  /\ upd = [p \in Writers |-> UpdStart]
  /\ \/ files = [cache |-> 0, tmp |-> 0] /\ inodes = <<>>
     \/ files = [cache |-> 1, tmp |-> 0] /\ inodes = <<Stringify(Str(V100))>>

NextUpdater ==
  \E p \in Writers :
    \/ CheckForUpdate(p)
    \/ Response(p)
    \/ Data(p)
    \/ End(p)
    \/ ReqError(p)
    \/ Timeout(p)
    \/ SaveOpen(p)
    \/ SaveWrite(p)
    \/ SaveRename(p)
    \/ SaveUnlink(p)

SpecUpdater == InitUpdater /\ [][NextUpdater]_vars

\* the handlers of an event of bin/blooop.js have left the state b
PickerCommit(b, op, key) ==
  /\ pickerActive' = b.pickerActive
  /\ ptyOutputBuffered' = b.ptyOutputBuffered
  /\ keyListeners' = b.keyListeners
  /\ confirmTimers' = b.confirmTimers
  /\ blooopJson' = b.config
  /\ crashed' = b.crashed
  /\ invocation' =
       LET i == IF b.opened THEN NoInvocation ELSE invocation
       IN [done |-> i.done + b.done, saves |-> i.saves + b.saves,
           terminated |-> i.terminated \/ b.terminated,
           failedWrite |-> i.failedWrite \/ b.failedWrite]
  /\ pkEvent' = [op |-> op, key |-> key, forwarded |-> b.forwarded, written |-> b.written,
                 opened |-> b.opened, bit |-> 1 - pkEvent.bit]
  /\ UNCHANGED <<configVars, classifierVars, soundVars, updaterVars>>

\* stdin delivers a chunk: onStdinData runs, and onKey when a picker listens;
\* a chunk that is forwarded reaches watcher.onUserInput
StdinData(key) ==
  /\ ~crashed
  /\ \E fails1 \in BOOLEAN, fails2 \in BOOLEAN, saveFails \in BOOLEAN :
       LET b == StdinEmit(B, key, fails1, fails2, saveFails)
           r == onUserInput(W, Str(key))
       IN /\ PickerCommit(b, "stdin", key)
          /\ IF b.forwarded
               THEN CommitClosure(r.w, "onUserInput", Str(key), r.ret)
               ELSE UNCHANGED <<watcherVars, historyVars>>

\* the wrapped process writes a chunk: onShellData runs, then the watcher's
\* handler
ShellData(data) ==
  /\ ~crashed
  /\ PickerCommit(onShellData(B), "pty", data)
  /\ CommitClosure(onData(W, data, Cfg), "onData", Str(data), FALSE)

\* a confirmation timeout whose delay has elapsed runs
ConfirmTimeout ==
  /\ ~crashed
  /\ \E i \in 1..Len(confirmTimers) :
       /\ confirmTimers[i] = 0
       /\ PickerCommit(
            onDone([B EXCEPT !.confirmTimers =
                      SubSeq(@, 1, i - 1) \o SubSeq(@, i + 1, Len(@))]),
            "timeout", <<>>)
  /\ UNCHANGED <<watcherVars, historyVars>>

\* PickerTickMs milliseconds pass while a confirmation is shown
PickerTick ==
  /\ ~crashed
  /\ \E i \in 1..Len(confirmTimers) : confirmTimers[i] > 0
  /\ PickerCommit(
       [B EXCEPT !.confirmTimers =
          [i \in 1..Len(@) |-> Max(0, @[i] - PickerTickMs)]],
       "tick", <<>>)
  /\ UNCHANGED <<watcherVars, historyVars>>

\* blooop run with BLOOOP_DISABLE_IDLE=1, whatever ~/.blooop.json holds
InitPicker ==
  /\ WatcherInit
  /\ options = [PlainOptions EXCEPT !.enableIdle = "false"]
  /\ onTrigger = HostCallback
  /\ cls = ClsNone
  /\ SoundInit
  /\ UpdaterInit
  /\ PickerStart
  /\ blooopJson \in ConfigFiles

NextPicker ==
  \/ \E key \in PickerKeys : StdinData(key)
  \/ \E data \in PickerChunks : ShellData(data)
  \/ ConfirmTimeout
  \/ PickerTick

SpecPicker == InitPicker /\ [][NextPicker]_vars

TypeOK ==
  /\ state \in {State.IDLE, State.PROMPT, State.NOTIFIED}
  /\ idleTimer \in Nat
  /\ {hadOutput, userHasInteracted, awaitingResponse, stopped} \subseteq BOOLEAN
  /\ \A t \in timers : t.id \in Nat \ {0} /\ t.remaining \in Nat
  /\ onTrigger \in {HostCallback} \cup ReentrantCallbacks
  /\ {superseded, reentered} \subseteq BOOLEAN
  /\ cls.done \in BOOLEAN /\ cls.data \in ClassifierInputs \cup {NoData}
  /\ platform \in Platforms
  /\ soundProc \in 0..Len(procs)
  /\ now \in Nat /\ lastNotifyAt \in Nat
  /\ \A i \in 1..Len(notifications) : notifications[i] \in Nat
  /\ lastCall.count \in 0..MaxNotifyCalls /\ lastCall.muted \in BOOLEAN
  /\ \A i \in 1..Len(procs) :
       /\ procs[i].idx \in 1..Len(getPlayers(platform))
       /\ {procs[i].found, procs[i].advanced, procs[i].killed} \subseteq BOOLEAN
       /\ Len(procs[i].events) <= 2
  /\ {pickerActive, ptyOutputBuffered, crashed} \subseteq BOOLEAN
  /\ keyListeners \in {0, 1}
  /\ Len(confirmTimers) <= 1
  /\ \A i \in 1..Len(confirmTimers) : confirmTimers[i] \in 0..ConfirmDelayMs
  /\ blooopJson \in ConfigFiles
  /\ files.cache \in 0..Len(inodes) /\ files.tmp \in 0..Len(inodes)
  /\ \A p \in Writers :
       /\ upd[p].pc \in {"start", "idle", "open", "write", "rename", "unlink"}
       /\ upd[p].req \in {"none", "pending", "streaming", "closed"}
       /\ upd[p].dataLen \in 0..MaxBodyBytes
       /\ upd[p].fd \in 0..Len(inodes)

\* ------------------------------------------------------------------------
\* Properties
\* ------------------------------------------------------------------------
closureVars ==
  <<state, idleTimer, hadOutput, userHasInteracted, awaitingResponse, stopped>>

\* the chunk matches one of promptPatterns / the agent-idle-prompt patterns
\* once its ANSI sequences are stripped
MatchesPrompt(text) == AnyMatch(promptPatterns, stripAnsi(text))
MatchesAgentIdle(text) == AnyMatch(CLAUDE_IDLE_PATTERNS, stripAnsi(text))

\* the text of a chunk contains a carriage return or a line feed
HasCrOrLf(text) == \E i \in 1..Len(text) : text[i] = CR \/ text[i] = LF

\* C1: onTrigger is invoked at most once between two consecutive onUserInput
\* calls that return true, and at most once before the first such call; no
\* single handler invokes it twice.
C1_AtMostOneTriggerPerArm == triggersSinceRearm <= 1 /\ Len(fired) <= 1

\* a chunk matching a prompt pattern arrives in a cycle that has already
\* triggered, on a running watcher, and invokes nothing
C1_Witness ==
  /\ triggersSinceRearm = 1
  /\ lastEvent.op = "onData"
  /\ MatchesPrompt(lastEvent.data.text)
  /\ fired = <<>>
  /\ ~stopCalled

\* C2: as long as no onUserInput call has returned true, onTrigger has not
\* been invoked, whatever chunks arrived and however much time passed.
C2_NoTriggerBeforeInteraction ==
  ~everRearmed => (fired = <<>> /\ triggersSinceRearm = 0)

\* a chunk matching a prompt pattern arrives before any meaningful input
C2_Witness ==
  /\ ~everRearmed
  /\ ~stopCalled
  /\ lastEvent.op = "onData"
  /\ MatchesPrompt(lastEvent.data.text)

\* C3: once stop() has returned, no handler invokes onTrigger, onUserInput
\* returns false, the closure state does not change and no timer is pending.
C3_StoppedIsInert ==
  [][stopCalled =>
       /\ UNCHANGED closureVars
       /\ timers = {} /\ timers' = {}
       /\ fired' = <<>>
       /\ ~lastEvent'.ret]_vars

\* stop() was called while the silence timer of a submitted, answered cycle
\* was pending, and the full default window has passed since
C3_Witness ==
  /\ stopCalled
  /\ state = State.IDLE /\ awaitingResponse /\ hadOutput /\ enableIdle
  /\ idleMs = DEFAULT_IDLE_MS
  /\ msSinceOutput >= idleMs
  /\ lastEvent.op = "tick"

\* the step is an onUserInput call with meaningful / not meaningful data
MeaningfulCall == lastEvent'.op = "onUserInput" /\ isMeaningfulUserInput(lastEvent'.data)
NoiseCall == lastEvent'.op = "onUserInput" /\ ~isMeaningfulUserInput(lastEvent'.data)

\* C4: NOTIFIED is left only by a meaningful onUserInput call, towards IDLE;
\* every other handler keeps it; and every meaningful onUserInput call on a
\* watcher that is not stopped returns true and leaves phase IDLE.
C4_NotifiedUntilMeaningfulInput ==
  [][/\ (state = State.NOTIFIED /\ ~MeaningfulCall) => state' = State.NOTIFIED
     /\ (state = State.NOTIFIED /\ state' # State.NOTIFIED) =>
          (state' = State.IDLE /\ MeaningfulCall /\ lastEvent'.ret)
     /\ (MeaningfulCall /\ ~stopped) => (state' = State.IDLE /\ lastEvent'.ret)]_vars

\* a noise input was given to a running watcher in NOTIFIED and left it there
C4_Witness ==
  /\ state = State.NOTIFIED
  /\ lastEvent.op = "onUserInput"
  /\ Len(lastEvent.data.text) > 0
  /\ ~lastEvent.ret
  /\ ~stopCalled

\* C5: an onUserInput call whose data is not meaningful returns false and
\* changes neither the closure state nor the pending timer.
C5_NoiseInputChangesNothing ==
  [][NoiseCall => (~lastEvent'.ret /\ UNCHANGED closureVars /\ UNCHANGED timers)]_vars

\* a noise input arrived on a running watcher while a timer was pending
C5_Witness ==
  /\ lastEvent.op = "onUserInput"
  /\ ~isMeaningfulUserInput(lastEvent.data)
  /\ ~lastEvent.ret
  /\ timers # {}
  /\ ~stopCalled

\* C6: a meaningful onUserInput call on a watcher that is not stopped returns
\* true and leaves userHasInteracted, phase IDLE, hadOutput false, no timer,
\* and awaitingResponse true exactly when the chunk contains CR or LF.
C6_MeaningfulInputRearms ==
  [][(MeaningfulCall /\ ~stopped) =>
       /\ lastEvent'.ret
       /\ userHasInteracted'
       /\ state' = State.IDLE
       /\ ~hadOutput'
       /\ timers' = {} /\ idleTimer' = 0
       /\ awaitingResponse' = HasCrOrLf(lastEvent'.data.text)]_vars

\* a meaningful input without CR/LF re-armed a watcher that had output
\* pending in an earlier cycle
C6_Witness ==
  /\ lastEvent.op = "onUserInput"
  /\ lastEvent.ret
  /\ lastEvent.data.kind = "string"
  /\ ~HasCrOrLf(lastEvent.data.text)
  /\ ~awaitingResponse
  /\ msSinceOutput > 0

\* C7: on a running watcher in phase IDLE whose user has interacted, a chunk
\* whose stripped text matches promptPatterns, and is not taken by an
\* agent-idle-prompt match under awaitingResponse, invokes onTrigger('prompt')
\* within its handler, cancels the timer and leaves phase NOTIFIED.
C7_PromptMatchTriggers ==
  [][( /\ lastEvent'.op = "onData"
       /\ ~stopped /\ state = State.IDLE /\ userHasInteracted
       /\ MatchesPrompt(lastEvent'.data.text)
       /\ ~(awaitingResponse /\ MatchesAgentIdle(lastEvent'.data.text)) ) =>
       /\ fired' = <<[reason |-> "prompt", state |-> State.PROMPT]>>
       /\ timers' = {} /\ idleTimer' = 0
       /\ state' = State.NOTIFIED]_vars

\* an ANSI-coloured prompt triggered with silence detection off
C7_Witness ==
  /\ lastEvent.op = "onData"
  /\ \E i \in 1..Len(lastEvent.data.text) : lastEvent.data.text[i] = ESC
  /\ Len(fired) = 1 /\ fired[1].reason = "prompt"
  /\ ~enableIdle

\* C9: a chunk that matches only the agent-idle-prompt patterns invokes
\* nothing while awaitingResponse is false; and every onTrigger('idle')
\* invocation, by the timer or by a pattern match, is made while the last
\* meaningful input was a submission and nothing has triggered since it.
C9_IdleOnlyAfterSubmission ==
  [][/\ ( /\ lastEvent'.op = "onData"
          /\ ~awaitingResponse
          /\ MatchesAgentIdle(lastEvent'.data.text)
          /\ ~MatchesPrompt(lastEvent'.data.text) ) => fired' = <<>>
     /\ \A i \in 1..Len(fired') : fired'[i].reason = "idle" => submitPending]_vars

\* the agent re-rendered its idle prompt on a running, armed watcher whose
\* user has typed but not submitted, and nothing was invoked
C9_Witness ==
  /\ lastEvent.op = "onData"
  /\ MatchesAgentIdle(lastEvent.data.text)
  /\ ~MatchesPrompt(lastEvent.data.text)
  /\ state = State.IDLE /\ userHasInteracted /\ ~stopCalled
  /\ ~submitPending
  /\ fired = <<>>

\* C10 as stated: with enableIdle false every onTrigger invocation is made by
\* the handler of a chunk that matches promptPatterns and carries 'prompt'.
C10_OnlyPromptReasonWhenIdleDisabled ==
  ~enableIdle =>
    \A i \in 1..Len(fired) :
      /\ fired[i].reason = "prompt"
      /\ lastEvent.op = "onData"
      /\ MatchesPrompt(lastEvent.data.text)

\* C10 as amended: with enableIdle false no timer is ever scheduled, so
\* silence never triggers; every onTrigger invocation is made by the handler
\* of a chunk that matches a pattern: promptPatterns with reason 'prompt', or
\* the agent-idle-prompt patterns with reason 'idle'.
C10_OnlyPatternMatchesWhenIdleDisabled ==
  ~enableIdle =>
    /\ timers = {}
    /\ \A i \in 1..Len(fired) :
         /\ lastEvent.op = "onData"
         /\ \/ fired[i].reason = "prompt" /\ MatchesPrompt(lastEvent.data.text)
            \/ fired[i].reason = "idle" /\ MatchesAgentIdle(lastEvent.data.text)

\* with silence detection off, the agent's idle prompt after a submission
\* triggered with reason 'idle'
C10_Witness ==
  /\ ~enableIdle
  /\ lastEvent.op = "onData"
  /\ Len(fired) = 1 /\ fired[1].reason = "idle"

\* a submission has been followed by output and nothing has triggered since,
\* on a running watcher with silence detection on
Armed ==
  /\ enableIdle
  /\ ~stopCalled
  /\ submitPending
  /\ outputSinceRearm
  /\ triggersSinceRearm = 0

\* the timer's callback has just invoked onTrigger('idle')
TimerIdleFired ==
  lastEvent.op = "timeout" /\ fired = <<[reason |-> "idle", state |-> State.IDLE]>>

\* what may end an armed cycle other than the timer: stop(), a meaningful
\* input, or a chunk whose pattern match triggered
CycleCutShort ==
  \/ stopCalled
  \/ lastEvent.op = "onUserInput" /\ lastEvent.ret
  \/ lastEvent.op = "onData" /\ fired # <<>>

\* C8: with silence detection on, once a submission has been followed by
\* output that did not trigger, if output stops then the timer invokes
\* onTrigger('idle') unless stop(), a meaningful input or a pattern match cuts
\* the cycle short; the timer does so only when idleMs has passed since the
\* last chunk, and its invocation is the only one of its cycle.
C8_IdleFiresOncePerSubmission ==
  /\ [](TimerIdleFired =>
          (msSinceOutput >= Min(idleMs, MaxElapsedMs) /\ triggersSinceRearm = 1))
  /\ (<>[][\A data \in OutputChunks : ~PtyData(data)]_vars) =>
       (Armed ~> (TimerIdleFired \/ CycleCutShort))

\* the timer fired once for a submission, and a further full window passed
\* without input and without another invocation
C8_Witness ==
  /\ enableIdle /\ ~stopCalled
  /\ idleMs = DEFAULT_IDLE_MS
  /\ state = State.NOTIFIED
  /\ outputSinceRearm
  /\ triggersSinceRearm = 1
  /\ lastEvent.op = "tick"
  /\ msSinceOutput >= MaxElapsedMs
  /\ timers = {}

\* C11 as stated: every chunk made only of terminal noise (empty, ESC,
\* ESC ESC, focus in / out, backspace, an arrow key in CSI or in
\* application-cursor form) is classified not meaningful, and onUserInput
\* returns false for it.
C11_NoiseIsNotMeaningful ==
  (cls.done /\ cls.data.kind = "string" /\ cls.data.text \in NoiseChunks)
    => (~cls.meaningful /\ ~cls.ret)

\* C12: a chunk is a submission exactly when its raw text contains CR or LF;
\* absent data is meaningful and no submission, so onUserInput() returns true
\* and leaves phase IDLE with awaitingResponse false.
C12_SubmissionIsRawCrLf ==
  cls.done =>
    /\ cls.data.kind = "string" => (cls.submission = HasCrOrLf(cls.data.text))
    /\ cls.data.kind = "undefined" =>
         /\ cls.meaningful /\ ~cls.submission
         /\ cls.ret /\ cls.state = State.IDLE /\ ~cls.awaitingResponse

\* onUserInput() with no argument was called on a watcher that had triggered
C12_Witness ==
  /\ cls.done
  /\ cls.data.kind = "undefined"
  /\ state = State.NOTIFIED
  /\ cls.state = State.IDLE

\* the timers the output handler of this step has scheduled: it leaves a
\* timer pending only when it ends with resetIdle()
NewTimers == IF lastEvent'.op = "onData" THEN timers' ELSE {}

\* C13 as stated: watch() replaces an absent, non-finite, zero or negative
\* idleMs by 4000 ms, so every timer is scheduled with a positive delay:
\* the given one when it is finite and positive, 4000 ms otherwise.
C13_DefaultUnlessFinitePositive ==
  [][\A t \in NewTimers :
       t.remaining = IF options.idleMs.kind = "number" /\ options.idleMs.value > 0
                       THEN options.idleMs.value ELSE 4000]_vars

\* C13 amended: watch() replaces only an absent or non-finite idleMs by
\* 4000 ms; a finite idleMs is the delay handed to setTimeout whatever its
\* sign, and setTimeout runs a delay below 1 ms as 1 ms.  The positivity test
\* is the caller's: bin/blooop.js hands over BLOOOP_IDLE_MS only when it
\* parses to a positive integer, an absent idleMs otherwise.
C13_DefaultUnlessFinite ==
  /\ [](\A e \in EnvIdleMs :
          LET o == BinIdleMsOption(e)
          IN /\ o = NoOption \/ (o.kind = "number" /\ o.value > 0)
             /\ ResolveIdleMs([PlainOptions EXCEPT !.idleMs = o]) > 0)
  /\ [][/\ idleMs = IF options.idleMs.kind = "number"
                      THEN options.idleMs.value ELSE 4000
        /\ \A t \in NewTimers :
             t.remaining = IF options.idleMs.kind = "number"
                             THEN Max(1, options.idleMs.value) ELSE 4000]_vars

\* watch() was given idleMs 0 or below and a timer is pending, due in 1 ms
C13_Witness ==
  /\ options.idleMs.kind = "number"
  /\ options.idleMs.value <= 0
  /\ idleMs = options.idleMs.value
  /\ \E t \in timers : t.remaining = 1

\* a submission is waiting for its answer on a running watcher with silence
\* detection on, whether or not output has arrived since
Submitted ==
  /\ enableIdle
  /\ ~stopCalled
  /\ submitPending
  /\ triggersSinceRearm = 0

\* C14 as stated: after a submission, if output stops (or never starts) then
\* silence alone makes the timer invoke onTrigger('idle'), unless stop(), a
\* meaningful input or a pattern match cuts the cycle short.
C14_SilenceAlwaysTriggers ==
  (<>[][\A data \in OutputChunks : ~PtyData(data)]_vars) =>
    (Submitted ~> (TimerIdleFired \/ CycleCutShort))

\* C14 amended: silence triggers only once an output chunk has arrived since
\* the submission.  Until then no timer is pending and nothing is invoked,
\* however long the silence; once a chunk that did not trigger has arrived,
\* the end of output leads to the timer's onTrigger('idle') unless the cycle
\* is cut short.
C14_SilenceTriggersAfterOutput ==
  /\ []((Submitted /\ ~outputSinceRearm) => (timers = {} /\ fired = <<>>))
  /\ (<>[][\A data \in OutputChunks : ~PtyData(data)]_vars) =>
       ((Submitted /\ outputSinceRearm) ~> (TimerIdleFired \/ CycleCutShort))

\* the silence window has passed since a submission that no output followed,
\* and nothing was invoked
C14_Witness ==
  /\ Submitted
  /\ ~outputSinceRearm
  /\ idleMs <= TickMs
  /\ lastEvent.op = "tick"
  /\ timers = {}
  /\ fired = <<>>

\* C15: whenever onTrigger is invoked, an output chunk has arrived since the
\* most recent meaningful input (since the start if there was none), and
\* hadOutput is true.
C15_TriggerNeedsOutput ==
  fired # <<>> => (outputSinceRearm /\ hadOutput)

\* the timer invoked onTrigger after output that followed the last input
C15_Witness ==
  /\ lastEvent.op = "timeout"
  /\ Len(fired) = 1
  /\ outputSinceRearm
  /\ hadOutput

Successors(i) ==
  {j \in 1..Len(procs) :
     procs[j].chain = procs[i].chain /\ procs[j].idx = procs[i].idx + 1}

\* process i has emitted an ENOENT 'error'
EmittedEnoent(i) ==
  \E k \in 1..Len(procs[i].events) :
    procs[i].events[k].type = "error" /\ procs[i].events[k].code = "ENOENT"

\* process i has exited with a code that is a number other than 0
ExitedNonZero(i) ==
  \E k \in 1..Len(procs[i].events) :
    /\ procs[i].events[k].type = "exit"
    /\ procs[i].events[k].code \notin {Num(0), NullCode}

\* process i has exited with code 0
ExitedZero(i) ==
  \E k \in 1..Len(procs[i].events) :
    procs[i].events[k].type = "exit" /\ procs[i].events[k].code = Num(0)

\* C16: a chain spawns the players of the list in order, each at most once;
\* a player other than the first is spawned only after the one before it
\* emitted ENOENT or exited with a non-zero number; a player that exited
\* with 0 has no fallback; nothing is spawned beyond the last player.
C16_FallbackInOrder ==
  \A i \in 1..Len(procs) :
    /\ procs[i].idx \in 1..Len(getPlayers(platform))
    /\ procs[i].command = getPlayers(platform)[procs[i].idx]
    /\ \A j \in (i + 1)..Len(procs) :
         procs[j].chain = procs[i].chain => procs[j].idx > procs[i].idx
    /\ procs[i].idx > 1 =>
         \E j \in 1..(i - 1) :
           /\ procs[j].chain = procs[i].chain
           /\ procs[j].idx = procs[i].idx - 1
           /\ EmittedEnoent(j) \/ ExitedNonZero(j)
    /\ ExitedZero(i) => Successors(i) = {}

\* both players of the list failed, the second after the first, and the
\* chain has ended
C16_Witness ==
  /\ Len(getPlayers(platform)) = 2
  /\ Len(procs) = 2
  /\ ExitedNonZero(1)
  /\ EmittedEnoent(2) /\ HasEvent(2, "exit")
  /\ soundProc = 0

\* C17: a player that has emitted both an ENOENT 'error' and an 'exit', in
\* either order and with any code, has exactly one fallback (none when it is
\* the last of the list); no player ever has two.
C17_AdvancesOnce ==
  \A i \in 1..Len(procs) :
    /\ Cardinality(Successors(i)) <= 1
    /\ (EmittedEnoent(i) /\ HasEvent(i, "exit")) =>
         Cardinality(Successors(i)) =
           IF procs[i].idx < Len(getPlayers(platform)) THEN 1 ELSE 0

\* the first player exited with a non-zero code and then emitted ENOENT:
\* both handlers asked for the fallback, and one was spawned
C17_Witness ==
  /\ Len(procs) = 2
  /\ Len(procs[1].events) = 2
  /\ procs[1].events[1].type = "exit" /\ procs[1].events[1].code = Num(1)
  /\ procs[1].events[2].type = "error" /\ procs[1].events[2].code = "ENOENT"
  /\ procs[2].idx = 2

\* the texts a completed write leaves in the cache file
CompleteContents == {Stringify(Str(v)) : v \in {V100, V101, V1010, Vv101}}

\* C18 as stated: whatever the interleaving of two writers, the cache file
\* is missing or holds the complete text one writer (or an earlier check)
\* wrote, never an empty, partial or mixed text.
C18_ReaderSeesCompleteContent ==
  files.cache # 0 => inodes[files.cache] \in CompleteContents

\* the versions of VersionValues that are valid semver strings
ValidVersions == {Str(V101), Str(V1010), Str(Vv101)}

\* C19: the cache is written only for a fetch result that is a valid semver
\* string: a process is inside saveCache only with such a value, only a
\* process inside saveCache changes the directory or a file, and a callback
\* invoked with anything else changes neither, however often it is invoked.
C19_OnlyValidVersionsWritten ==
  /\ [](\A p \in Writers :
          upd[p].pc \in {"open", "write", "rename", "unlink"} =>
            upd[p].saving \in ValidVersions)
  /\ [][(files' # files \/ inodes' # inodes) =>
          \E p \in Writers :
            /\ upd[p].pc \in {"open", "write", "rename", "unlink"}
            /\ upd[p].saving \in ValidVersions
            /\ upd'[p] # upd[p]]_vars
  /\ [][\A p \in Writers :
          (upd[p].pc = "idle" /\ upd'[p] # upd[p] /\ upd'[p].pc = "idle") =>
            (files' = files /\ inodes' = inodes)]_vars

\* the callback of process 1 has been invoked for a non-200 response, for an
\* error and for a timeout, that of process 2 for an oversized body, and the
\* cache file is as it was
C19_Witness ==
  /\ upd[1].pc = "idle" /\ upd[1].req = "closed"
  /\ upd[1].errorSeen /\ upd[1].timeoutSeen
  /\ upd[1].chunks = 0
  /\ upd[2].pc = "idle" /\ upd[2].req = "closed"
  /\ ~upd[2].errorSeen /\ ~upd[2].timeoutSeen
  /\ files = [cache |-> 1, tmp |-> 0]
  /\ inodes = <<Stringify(Str(V100))>>

\* C21: at most one idle timer is pending in every state, and a handler that
\* schedules a timer while one is pending leaves only the new one, which has
\* its whole delay to run.
C21_AtMostOneTimer ==
  /\ [](Cardinality(timers) <= 1)
  /\ [][superseded' =>
          \E t \in timers' : timers' = {t} /\ t.remaining = TimeoutDelay(idleMs)]_vars

\* a timer that had run for part of its delay was replaced by a new one
C21_Witness ==
  /\ superseded
  /\ Cardinality(timers) = 1
  /\ idleMs > TickMs
  /\ \A t \in timers : t.remaining = idleMs

\* C22: awaitingResponse is true only in phase IDLE; it is false after every
\* onTrigger invocation, and only a submission input that re-arms makes it
\* true again.
C22_AwaitingOnlyWhenIdle ==
  /\ [](awaitingResponse => state = State.IDLE)
  /\ [](fired # <<>> => ~awaitingResponse)
  /\ [][(~awaitingResponse /\ awaitingResponse') =>
          /\ lastEvent'.op = "onUserInput"
          /\ lastEvent'.ret
          /\ HasCrOrLf(lastEvent'.data.text)]_vars

\* the agent's idle prompt triggered while a submission was waiting, and
\* awaitingResponse is false in phase NOTIFIED
C22_Witness ==
  /\ lastEvent.op = "onData"
  /\ fired = <<[reason |-> "idle", state |-> State.IDLE]>>
  /\ state = State.NOTIFIED
  /\ ~awaitingResponse

\* C23: a chunk that matches both an agent-idle-prompt pattern and a prompt
\* pattern while awaitingResponse is true invokes onTrigger once, with
\* 'idle'; no handler invokes onTrigger more than once.
C23_IdlePatternsFirst ==
  [][/\ ( /\ lastEvent'.op = "onData"
          /\ ~stopped /\ state = State.IDLE /\ userHasInteracted /\ awaitingResponse
          /\ MatchesAgentIdle(lastEvent'.data.text)
          /\ MatchesPrompt(lastEvent'.data.text) ) =>
          fired' = <<[reason |-> "idle", state |-> State.IDLE]>>
     /\ Len(fired') <= 1]_vars

\* a chunk with a confirmation prompt and the agent's input prompt arrived
\* while a submission was waiting, and triggered 'idle'
C23_Witness ==
  /\ lastEvent.op = "onData"
  /\ MatchesAgentIdle(lastEvent.data.text)
  /\ MatchesPrompt(lastEvent.data.text)
  /\ Len(fired) = 1 /\ fired[1].reason = "idle"

\* C24: between handlers the phase is IDLE or NOTIFIED; the callback sees
\* PROMPT exactly when its reason is 'prompt'; after every invocation the
\* phase is NOTIFIED.
C24_PromptIsTransient ==
  /\ state \in {State.IDLE, State.NOTIFIED}
  /\ \A i \in 1..Len(fired) :
       (fired[i].state = State.PROMPT) = (fired[i].reason = "prompt")
  /\ fired # <<>> => state = State.NOTIFIED

\* the callback of a prompt trigger saw PROMPT and the handler left NOTIFIED
C24_Witness ==
  /\ fired = <<[reason |-> "prompt", state |-> State.PROMPT]>>
  /\ state = State.NOTIFIED
  /\ enableIdle

\* C25: in phase IDLE with enableIdle and awaitingResponse, a chunk that does
\* not trigger leaves one timer with the whole of idleMs to run, whatever
\* was left of the previous one; so the timer invokes onTrigger only when
\* idleMs has passed since the last chunk, and chunks closer than idleMs keep
\* postponing it.
C25_OutputRestartsWindow ==
  /\ [][( /\ lastEvent'.op = "onData"
          /\ ~stopped /\ state = State.IDLE /\ enableIdle /\ awaitingResponse
          /\ fired' = <<>> ) =>
          \E t \in timers' : timers' = {t} /\ t.remaining = TimeoutDelay(idleMs)]_vars
  /\ [][(lastEvent'.op = "timeout" /\ fired' # <<>>) =>
          msSinceOutput >= Min(idleMs, MaxElapsedMs)]_vars

\* a chunk arrived when the timer was due but had not run yet, and the
\* window started again
C25_Witness ==
  /\ superseded
  /\ idleMs <= TickMs
  /\ msSinceOutput = 0
  /\ awaitingResponse
  /\ \E t \in timers : t.remaining = TimeoutDelay(idleMs)

\* C26: while a timer is pending the watcher is running in phase IDLE with
\* enableIdle, hadOutput, userHasInteracted and awaitingResponse all true; so
\* every timeout that runs invokes onTrigger('idle'), and no timer is pending
\* in phase NOTIFIED.
C26_PendingTimerIsArmed ==
  /\ [](timers # {} =>
          /\ ~stopped /\ enableIdle /\ state = State.IDLE
          /\ hadOutput /\ userHasInteracted /\ awaitingResponse)
  /\ [](state = State.NOTIFIED => timers = {})
  /\ [][lastEvent'.op = "timeout" =>
          fired' = <<[reason |-> "idle", state |-> State.IDLE]>>]_vars

\* a timer is due and about to run
C26_Witness ==
  /\ lastEvent.op = "tick"
  /\ \E t \in timers : t.remaining = 0
  /\ hadOutput /\ awaitingResponse

\* C27: a meaningful input without CR/LF cancels the timer and clears
\* awaitingResponse; while awaitingResponse is false no timer is pending and
\* whatever invokes onTrigger is a chunk matching promptPatterns, with
\* reason 'prompt'.
C27_TypingEndsIdleCycle ==
  /\ [][( /\ lastEvent'.op = "onUserInput" /\ lastEvent'.ret
          /\ ~HasCrOrLf(lastEvent'.data.text) ) =>
          (timers' = {} /\ ~awaitingResponse' /\ ~submitPending')]_vars
  /\ [](~awaitingResponse => timers = {})
  /\ [][(~awaitingResponse /\ fired' # <<>>) =>
          /\ lastEvent'.op = "onData"
          /\ MatchesPrompt(lastEvent'.data.text)
          /\ fired' = <<[reason |-> "prompt", state |-> State.PROMPT]>>]_vars

\* after typing without submitting, a chunk that shows both the agent's
\* input prompt and a confirmation prompt triggered 'prompt', not 'idle'
C27_Witness ==
  /\ lastEvent.op = "onData"
  /\ MatchesAgentIdle(lastEvent.data.text)
  /\ MatchesPrompt(lastEvent.data.text)
  /\ Len(fired) = 1 /\ fired[1].reason = "prompt"
  /\ everRearmed

\* C28: when the callback calls onUserInput with a meaningful input, which
\* returns true, the handler that triggered leaves the watcher in phase IDLE;
\* when the callback calls stop(), the handler leaves the phase as it was at
\* that call.
C28_ReentrantCallTakesEffect ==
  [][fired' # <<>> =>
       /\ reentered' => state' = State.IDLE
       /\ onTrigger.call = "stop" => (stopped' /\ state' = fired'[1].state)]_vars

\* a player that was started, has not been killed and has not exited
Running(i) == procs[i].found /\ ~procs[i].killed /\ ~HasEvent(i, "exit")

\* C29: any two notifications are at least COOLDOWN_MS apart and each comes
\* with one playSound(); a notify() call that is muted or within the cooldown
\* changes nothing, lastNotifyAt included; any other call records its time,
\* plays and notifies.
C29_CooldownBetweenNotifications ==
  /\ [](\A i, j \in 1..Len(notifications) :
          i < j => notifications[j] - notifications[i] >= COOLDOWN_MS)
  /\ [](Len(getPlayers(platform)) > 0 => ChainCount = Len(notifications))
  /\ [][lastCall'.count # lastCall.count =>
          IF lastCall'.muted \/ lastCall'.at - lastNotifyAt < COOLDOWN_MS
            THEN UNCHANGED <<lastNotifyAt, notifications, soundProc, procs>>
            ELSE /\ lastNotifyAt' = lastCall'.at
                 /\ notifications' = Append(notifications, lastCall'.at)
                 /\ Len(getPlayers(platform)) > 0 => Len(procs') = Len(procs) + 1]_vars

\* a muted call came when the cooldown was over, and lastNotifyAt is still
\* the time of the one notification before it
C29_Witness ==
  /\ lastCall.muted
  /\ lastCall.at - lastNotifyAt >= COOLDOWN_MS
  /\ notifications = <<lastNotifyAt>>

\* C30: a chain whose player playSound() has killed spawns no further player;
\* an event of a killed player leaves soundProc alone; at most one player
\* that was not killed is running.
C30_OneChainActive ==
  /\ [][Len(procs') > Len(procs) =>
          \A i \in 1..Len(procs) :
            procs'[i].killed => procs'[i].chain # procs'[Len(procs')].chain]_vars
  /\ [][\A i \in 1..Len(procs) :
          (procs[i].killed /\ procs'[i].events # procs[i].events) =>
            soundProc' = soundProc]_vars
  /\ [](Cardinality({i \in 1..Len(procs) : Running(i)}) <= 1)

\* C31: pickerActive and ptyOutputBuffered are equal between events; while
\* the picker is active no stdin chunk reaches the watcher or the wrapped
\* process or opens a picker, and no PTY output is written to stdout; the
\* Ctrl+B that opens a picker is not forwarded either.
C31_PickerHoldsInput ==
  /\ [](pickerActive = ptyOutputBuffered)
  /\ [][(pickerActive /\ pkEvent'.op = "stdin") =>
          /\ ~pkEvent'.forwarded /\ ~pkEvent'.opened
          /\ UNCHANGED <<watcherVars, lastEvent>>]_vars
  /\ [][(pickerActive /\ pkEvent'.op = "pty") => ~pkEvent'.written]_vars
  /\ [][(pkEvent'.op = "stdin" /\ pkEvent'.opened) =>
          /\ pkEvent'.key = CtrlB /\ ~pkEvent'.forwarded
          /\ UNCHANGED <<watcherVars, lastEvent>>]_vars

\* Enter was pressed while the confirmation was shown, and went nowhere
C31_Witness ==
  /\ pickerActive
  /\ keyListeners = 0 /\ confirmTimers # <<>>
  /\ pkEvent.op = "stdin" /\ pkEvent.key = <<CR>>
  /\ ~pkEvent.forwarded
  /\ lastEvent.op # "onUserInput"

\* C32: a showSoundPicker() call runs onDone at most once and saves the
\* config at most once; once a terminating key was pressed or the initial
\* write failed, onDone has run once or the confirmation timeout that will
\* run it is pending; with no picker open every chunk but Ctrl+B is
\* forwarded.
C32_DoneExactlyOnce ==
  /\ [](invocation.done <= 1 /\ invocation.saves <= 1)
  /\ []((invocation.terminated \/ invocation.failedWrite) =>
          \/ invocation.done = 1 /\ confirmTimers = <<>>
          \/ invocation.done = 0 /\ Len(confirmTimers) = 1)
  /\ [][(~pickerActive /\ pkEvent'.op = "stdin" /\ pkEvent'.key # CtrlB) =>
          pkEvent'.forwarded]_vars

====
